---- MODULE Spec2Model ----
(***************************************************************************)
(* Model of the Nikon Z menu editor (visual_editor.py, class               *)
(* NikonZMenuEditor) and of the section validator / locator / checksum     *)
(* code it contains.                                                       *)
(*                                                                         *)
(* A byte buffer (bytearray) is a record [len, nz]: len is its length and  *)
(* nz maps exactly the positions that hold a non-zero byte to that byte;   *)
(* every other position below len holds 0.  The representation is exact    *)
(* (one record per byte string) and lets the model keep the layout         *)
(* constants of the source (6628, 1240, 924, 1540, ...) unscaled.          *)
(***************************************************************************)
EXTENDS Integers, Sequences, FiniteSets, TLC

VARIABLES
    file_data,        \* self.file_data: NoData or a buffer
    current_file,     \* self.current_file: NoFile or a file name
    config_sections,  \* self.config_sections: section key -> section record
    modified,         \* self.modified
    selection,        \* mode_listbox.curselection(): NoSel or a section key
    imenu_vars,       \* self.imenu_vars: 12 combobox texts
    prefix_var,       \* self.prefix_var: text of the prefix entry
    custom_vars,      \* self.a1_var, self.d2_var, self.e1_var
    copy_source_var,  \* self.copy_source_var: NoSel or a section key
    disk,             \* the file system: file name -> buffer
    dialog,           \* the last messagebox / result shown to the user
    probe,            \* result of the last direct validator call
    last,             \* history: the last handler run other than a selection,
                      \* file_data before it, and the handler run before it
    used,             \* history: how many loads, edits, saves and checks ran
    user_details,     \* what update_user_settings_display last put in
                      \* user_details_text
    exported,         \* the settings export_settings last wrote as JSON
    uploader          \* the CameraUploader and the position of its
                      \* upload_menu_file call

vars == <<file_data, current_file, config_sections, modified, selection,
          imenu_vars, prefix_var, custom_vars, copy_source_var, disk,
          dialog, probe, last, used, user_details, exported, uploader>>

NoData == [len |-> -1, nz |-> <<>>]
NoFile == "(none)"
NoSel == <<"", 0>>

(***************************************************************************)
(* Layout constants of the source                                          *)
(***************************************************************************)
SECTION_SIZE == 6628
MODE_ID_OFFSET == 1240
MK2_MODE_ID_OFFSET == 316
IMENU_OFFSET == 924
IMENU_SLOTS == 12
IMENU_STRIDE == 4
PREFIX_OFFSET == 1540
PREFIX_LEN == 10
MAX_IMENU_ID == 80
A1_OFFSET == 1628
D2_OFFSET == 1940
E1_OFFSET == 1964
CRC_MASK == 65536
CRC_TOP_BIT == 32768

(***************************************************************************)
(* Byte buffers                                                            *)
(***************************************************************************)
HasData(b) == b.len >= 0

\* bytearray indexing b[p] for 0 <= p < len(b)
ByteAt(b, p) == IF p \in DOMAIN b.nz THEN b.nz[p] ELSE 0

\* b[p] = v for 0 <= p < len(b), 0 <= v <= 255
SetByte(b, p, v) ==
    IF v = 0
    THEN [b EXCEPT !.nz = [q \in (DOMAIN b.nz) \ {p} |-> b.nz[q]]]
    ELSE [b EXCEPT !.nz = [q \in (DOMAIN b.nz) \cup {p} |->
                              IF q = p THEN v ELSE b.nz[q]]]

\* len(section) - section.count(0) for section = b[lo:hi], 0 <= lo
NonZeroCount(b, lo, hi) ==
    Cardinality({p \in DOMAIN b.nz : p >= lo /\ p < hi /\ p < b.len})

\* the buffer of length n whose byte at q is F(q); cand holds every position
\* where F may be non-zero
FromBytes(n, cand, F(_)) ==
    [len |-> n, nz |-> [q \in {c \in cand : c >= 0 /\ c < n /\ F(c) # 0} |-> F(q)]]

\* bytearray(s) for a sequence s of byte values
BufferOf(s) ==
    LET F(q) == s[q + 1] IN FromBytes(Len(s), 0..(Len(s) - 1), F)

(***************************************************************************)
(* calculate_crc16 / update_crc / verify_crc                               *)
(***************************************************************************)
RECURSIVE BitXor(_, _)
\* a ^ b on non-negative integers
BitXor(a, b) ==
    IF a = 0 THEN b
    ELSE IF b = 0 THEN a
    ELSE (((a % 2) + (b % 2)) % 2) + 2 * BitXor(a \div 2, b \div 2)

\* x with the bit of weight w toggled
FlipBit(x, w) == IF (x \div w) % 2 = 1 THEN x - w ELSE x + w

\* x ^ 0x1021: 0x1021 = 2^12 + 2^5 + 2^0
XorPoly(x) == FlipBit(FlipBit(FlipBit(x, 1), 32), 4096)

\* a faulty pass of the inner loop that never xors the polynomial in
CrcRound_shift_only(crc) == (crc * 2) % CRC_MASK

\* one pass of the inner loop: test 0x8000, shift, xor, mask to 16 bits
CrcRound(crc) ==
    IF (crc \div CRC_TOP_BIT) % 2 = 1
    THEN XorPoly(crc * 2) % CRC_MASK
    ELSE (crc * 2) % CRC_MASK

\* the 8 passes of the inner loop, tabulated over the 16-bit values of crc:
\* EightRounds[crc + 1] is crc after "for _ in range(8)"
EightRounds ==
    SubSeq([i \in 1..CRC_MASK |->
               CrcRound(CrcRound(CrcRound(CrcRound(
               CrcRound(CrcRound(CrcRound(CrcRound(i - 1))))))))],
           1, CRC_MASK)

\* one pass of the outer loop: crc ^= byte << 8, then the inner loop
CrcByte(crc, byte) == EightRounds[BitXor(crc, byte * 256) + 1]

\* eight passes of the outer loop, over b[lo:lo + 8]
CrcBytes8(b, crc, lo) ==
    CrcByte(CrcByte(CrcByte(CrcByte(CrcByte(CrcByte(CrcByte(CrcByte(crc,
        ByteAt(b, lo)), ByteAt(b, lo + 1)), ByteAt(b, lo + 2)), ByteAt(b, lo + 3)),
        ByteAt(b, lo + 4)), ByteAt(b, lo + 5)), ByteAt(b, lo + 6)), ByteAt(b, lo + 7))

RECURSIVE CrcRange(_, _, _, _)
\* the outer loop run over b[lo:hi] starting from crc, bytes in index order
\* (a long range is cut in two at a multiple of 8 bytes only to bound the
\* evaluation depth; the bytes are still taken one by one, first to last)
CrcRange(b, crc, lo, hi) ==
    IF lo >= hi THEN crc
    ELSE IF hi - lo < 8 THEN CrcRange(b, CrcByte(crc, ByteAt(b, lo)), lo + 1, hi)
    ELSE IF hi - lo = 8 THEN CrcBytes8(b, crc, lo)
    ELSE LET mid == lo + 8 * ((hi - lo + 8) \div 16)
             left == CrcRange(b, crc, lo, mid)
         IN IF left >= 0 THEN CrcRange(b, left, mid, hi) ELSE left

\* the number of zero bytes b[:n] starts with
LeadingZeros(b, n) ==
    LET firsts == {p \in DOMAIN b.nz : p < n /\ \A q \in DOMAIN b.nz : p <= q}
    IN IF firsts = {} THEN n ELSE CHOOSE p \in firsts : TRUE

\* calculate_crc16(b[:n]): crc = 0, then the outer loop over the bytes.  A
\* pass over a zero byte leaves a zero crc at 0 (0 ^ (0 << 8) = 0, and the
\* inner loop shifts 0 eight times), so the passes over the leading zero
\* bytes are not evaluated one by one
calculate_crc16(b, n) == CrcRange(b, 0, LeadingZeros(b, n), n)

\* a faulty update_crc that takes the CRC of the whole buffer
update_crc_whole(b) ==
    IF b.len >= 2
    THEN LET crc == calculate_crc16(b, b.len)
         IN SetByte(SetByte(b, b.len - 2, (crc \div 256) % 256),
                    b.len - 1, crc % 256)
    ELSE b

\* update_crc applied to the buffer b
update_crc(b) ==
    IF b.len >= 2
    THEN LET crc == calculate_crc16(b, b.len - 2)
         IN SetByte(SetByte(b, b.len - 2, (crc \div 256) % 256),
                    b.len - 1, crc % 256)
    ELSE b

\* struct.unpack('>H', b[-2:])[0]
current_crc(b) == ByteAt(b, b.len - 2) * 256 + ByteAt(b, b.len - 1)

\* a faulty verify_crc that checks a buffer of fewer than 2 bytes too
verify_crc_unguarded(b) ==
    IF ~HasData(b) THEN "none"
    ELSE IF current_crc(b) = calculate_crc16(b, b.len - 2) THEN "valid"
    ELSE "mismatch"

\* a faulty verify_crc that reads the stored CRC low byte first
verify_crc_little_endian(b) ==
    IF ~HasData(b) \/ b.len < 2 THEN "none"
    ELSE IF ByteAt(b, b.len - 1) * 256 + ByteAt(b, b.len - 2)
              = calculate_crc16(b, b.len - 2) THEN "valid"
    ELSE "mismatch"

\* what verify_crc shows for the buffer b
verify_crc(b) ==
    IF ~HasData(b) \/ b.len < 2 THEN "none"
    ELSE IF current_crc(b) = calculate_crc16(b, b.len - 2) THEN "valid"
    ELSE "mismatch"

(***************************************************************************)
(* Name tables                                                             *)
(***************************************************************************)
\* item_id in self.imenu_names: the keys are 0..80
InImenuNames(item_id) == item_id \in 0..MAX_IMENU_ID

\* the keys of self.mode_names / mode_patterns
MODE_IDS == 29..36

\* self.mode_names.get(mode_id, f"Unknown Mode {mode_id}")
ModeName(mode_id) ==
    CASE mode_id = 29 -> <<"Program (P)", 0>>
      [] mode_id = 30 -> <<"Shutter Priority (S)", 0>>
      [] mode_id = 31 -> <<"Aperture Priority (A)", 0>>
      [] mode_id = 32 -> <<"Manual (M)", 0>>
      [] mode_id = 33 -> <<"Auto", 0>>
      [] mode_id = 34 -> <<"U1 (User Setting 1)", 0>>
      [] mode_id = 35 -> <<"U2 (User Setting 2)", 0>>
      [] mode_id = 36 -> <<"U3 (User Setting 3)", 0>>
      [] OTHER -> <<"Unknown Mode", mode_id>>

\* any(mode_name.startswith(u) for u in ["U1", "U2", "U3"])
IsUserMode(mode_name) ==
    mode_name[1] \in {"U1 (User Setting 1)", "U2 (User Setting 2)",
                      "U3 (User Setting 3)"}

(***************************************************************************)
(* is_valid_config_section / score_config_section                          *)
(***************************************************************************)
\* a faulty density test that accepts every window
DensityOk_any(nonzero) == nonzero >= 0

\* data_density >= 0.01 for data_density = nonzero / 6628: no multiple of
\* 1/6628 equals 0.01, so the float comparison is the integer one
DensityOk(nonzero) == nonzero * 100 >= SECTION_SIZE

\* a faulty test that also rejects a window ending at the end of the buffer
is_valid_config_section_strict(b, offset) ==
    IF offset + SECTION_SIZE >= b.len
    THEN FALSE
    ELSE DensityOk(NonZeroCount(b, offset, offset + SECTION_SIZE))

\* a faulty test that does not compare the end of the window with the length
is_valid_config_section_nofit(b, offset) ==
    IF offset > b.len
    THEN FALSE
    ELSE DensityOk(NonZeroCount(b, offset, offset + SECTION_SIZE))

is_valid_config_section(b, offset) ==
    IF offset + SECTION_SIZE > b.len
    THEN FALSE
    ELSE DensityOk(NonZeroCount(b, offset, offset + SECTION_SIZE))

\* a faulty count that accepts every byte as a setting id
ValidImenuSlots_any(b, offset) ==
    {i \in 0..(IMENU_SLOTS - 1) :
        offset + IMENU_OFFSET + i * IMENU_STRIDE < b.len}

\* the i-menu positions of the section at offset whose byte passes the test
ValidImenuSlots(b, offset) ==
    {i \in 0..(IMENU_SLOTS - 1) :
        LET pos == offset + IMENU_OFFSET + i * IMENU_STRIDE
        IN pos < b.len /\ InImenuNames(ByteAt(b, pos))}

\* score_config_section, as the exact rational score * 6628:
\* (nonzero / 6628) * 50 + valid_entries * 5.  Scores differ by at least
\* 50/6628, far above float rounding, so the order of scores is kept.
score_config_section(b, offset) ==
    IF ~is_valid_config_section(b, offset)
    THEN 0
    ELSE NonZeroCount(b, offset, offset + SECTION_SIZE) * 50
         + Cardinality(ValidImenuSlots(b, offset)) * 5 * SECTION_SIZE

(***************************************************************************)
(* find_config_sections / auto_detect_sections                             *)
(***************************************************************************)
standard_sections_mk1 ==
    <<[offset |-> 169824, name |-> "Primary M/A/S/P/Auto"],
      [offset |-> 176452, name |-> "Secondary M/A/S/P/Auto"],
      [offset |-> 183080, name |-> "U1"],
      [offset |-> 189708, name |-> "U2"],
      [offset |-> 196336, name |-> "U3"]>>

standard_sections_mk2 ==
    <<[offset |-> 250612, name |-> "M/A/S/P Settings (Main)"],
      [offset |-> 272312, name |-> "M/A/S/P Settings (Backup)"],
      [offset |-> 294012, name |-> "U1"],
      [offset |-> 315712, name |-> "U2"],
      [offset |-> 337412, name |-> "U3"]>>

\* a dict built from a set of (key, record) entries with distinct keys
DictOf(entries) ==
    [k \in {e.key : e \in entries} |-> (CHOOSE e \in entries : e.key = k).rec]

\* a faulty choice that keeps the first candidate, whatever its score
AutoBest_first(b, mode_id) ==
    LET cands == {p - MODE_ID_OFFSET : p \in
                     {q \in DOMAIN b.nz : b.nz[q] = mode_id
                         /\ q - MODE_ID_OFFSET >= 0
                         /\ is_valid_config_section(b, q - MODE_ID_OFFSET)}}
    IN {c \in cands : \A d \in cands : c <= d}

\* a faulty choice that takes every position of the mode id as a candidate,
\* plausible or not
AutoBest_unchecked(b, mode_id) ==
    LET cands == {p - MODE_ID_OFFSET : p \in
                     {q \in DOMAIN b.nz : b.nz[q] = mode_id
                         /\ q - MODE_ID_OFFSET >= 0}}
        top == {c \in cands : \A d \in cands :
                   score_config_section(b, d) <= score_config_section(b, c)}
    IN {c \in top : \A d \in top : c <= d}

\* the section stored for mode_id by auto_detect_sections, as a set that is
\* empty when no candidate exists: max(candidates, key=score) returns the
\* first candidate of maximal score, and candidates are in position order
AutoBest(b, mode_id) ==
    LET cands == {p - MODE_ID_OFFSET : p \in
                     {q \in DOMAIN b.nz : b.nz[q] = mode_id
                         /\ q - MODE_ID_OFFSET >= 0
                         /\ is_valid_config_section(b, q - MODE_ID_OFFSET)}}
        top == {c \in cands : \A d \in cands :
                   score_config_section(b, d) <= score_config_section(b, c)}
    IN {c \in top : \A d \in top : c <= d}

auto_detect_sections(b) ==
    DictOf({[key |-> <<"Auto-detected", m>>,
             rec |-> [offset |-> CHOOSE c \in AutoBest(b, m) : TRUE,
                      mode_id |-> m,
                      mode_name |-> ModeName(m),
                      source |-> "auto"]] :
            m \in {n \in MODE_IDS : AutoBest(b, n) # {}}})

\* the Mark 2 loop of find_config_sections
Mk2Sections(b) ==
    DictOf({LET offset == standard_sections_mk2[i].offset
                mode_id == IF offset + MK2_MODE_ID_OFFSET < b.len
                           THEN ByteAt(b, offset + MK2_MODE_ID_OFFSET)
                           ELSE 0
            IN [key |-> <<standard_sections_mk2[i].name, mode_id>>,
                rec |-> [offset |-> offset,
                         mode_id |-> mode_id,
                         mode_name |-> ModeName(mode_id),
                         source |-> "standard_mk2"]] :
            i \in {j \in 1..Len(standard_sections_mk2) :
                     is_valid_config_section(b, standard_sections_mk2[j].offset)}})

\* a faulty Mark 1 loop that drops a U1, U2 or U3 entry whose byte at + 1240
\* is not 34, 35 or 36
Mk1Sections_modechecked(b) ==
    DictOf({LET offset == standard_sections_mk1[i].offset
                mode_id == ByteAt(b, offset + MODE_ID_OFFSET)
            IN [key |-> <<standard_sections_mk1[i].name, mode_id>>,
                rec |-> [offset |-> offset,
                         mode_id |-> mode_id,
                         mode_name |-> ModeName(mode_id),
                         source |-> "standard_mk1"]] :
            i \in {j \in 1..Len(standard_sections_mk1) :
                     /\ is_valid_config_section(b, standard_sections_mk1[j].offset)
                     /\ j >= 3 => ByteAt(b, standard_sections_mk1[j].offset
                                             + MODE_ID_OFFSET) = 31 + j}})

\* the Mark 1 loop of find_config_sections
Mk1Sections(b) ==
    DictOf({LET offset == standard_sections_mk1[i].offset
                mode_id == ByteAt(b, offset + MODE_ID_OFFSET)
            IN [key |-> <<standard_sections_mk1[i].name, mode_id>>,
                rec |-> [offset |-> offset,
                         mode_id |-> mode_id,
                         mode_name |-> ModeName(mode_id),
                         source |-> "standard_mk1"]] :
            i \in {j \in 1..Len(standard_sections_mk1) :
                     is_valid_config_section(b, standard_sections_mk1[j].offset)}})

\* a faulty find_config_sections that does not return after the Mark 2 loop
find_config_sections_noreturn(b) ==
    IF DOMAIN Mk2Sections(b) # {} \/ DOMAIN Mk1Sections(b) # {}
    THEN Mk2Sections(b) @@ Mk1Sections(b)
    ELSE auto_detect_sections(b)

\* the value of self.config_sections when find_config_sections returns
find_config_sections(b) ==
    IF DOMAIN Mk2Sections(b) # {} THEN Mk2Sections(b)
    ELSE IF DOMAIN Mk1Sections(b) # {} THEN Mk1Sections(b)
    ELSE auto_detect_sections(b)

\* position of a section key in sorted(self.config_sections.keys()): the
\* keys of one dict come from one table, and compare as their strings do
KeyRank(k) ==
    CASE k[1] = "Auto-detected" ->
            (CASE k[2] = 31 -> 1 [] k[2] = 33 -> 2 [] k[2] = 32 -> 3
               [] k[2] = 29 -> 4 [] k[2] = 30 -> 5 [] k[2] = 34 -> 6
               [] k[2] = 35 -> 7 [] OTHER -> 8)
      [] k[1] = "M/A/S/P Settings (Backup)" -> 1
      [] k[1] = "M/A/S/P Settings (Main)" -> 2
      [] k[1] = "Primary M/A/S/P/Auto" -> 1
      [] k[1] = "Secondary M/A/S/P/Auto" -> 2
      [] k[1] = "U1" -> 3
      [] k[1] = "U2" -> 4
      [] OTHER -> 5

\* the first entry of the listbox, selected by populate_mode_list
FirstKey(sections) ==
    CHOOSE k \in DOMAIN sections :
        \A j \in DOMAIN sections : KeyRank(k) <= KeyRank(j)

(***************************************************************************)
(* Widget texts.  A text is a pair <<label, number>>: "Name (21)" is       *)
(* <<"Name", 21>>, "(Empty)" is <<"(Empty)", 0>>, the empty string is      *)
(* <<"", 0>>.  A prefix is the sequence of its character codes.  In the    *)
(* details text and in the export, which print a name without its id,      *)
(* <<"Name", 21>> stands for the name of 21 alone and <<"Unknown", 200>>   *)
(* for "Unknown (200)".                                                    *)
(***************************************************************************)
BlankText == <<"", 0>>

\* the text load_section_settings puts in an i-menu combobox for item_id
ImenuText(item_id) ==
    IF item_id = 0 THEN <<"(Empty)", 0>>
    ELSE IF InImenuNames(item_id) THEN <<"Name", item_id>>
    ELSE <<"Unknown/Invalid", item_id>>

\* a faulty parse that takes an id from the text of a known name only
ImenuParse_names(value) ==
    IF value[1] = "(Empty)" THEN 0
    ELSE IF value[1] \in {"Name"} THEN value[2]
    ELSE 0

\* apply_imenu_changes: "(Empty)" is 0, else int(value.split('(')[-1]
\* .split(')')[0]), and 0 when that raises (the empty string)
ImenuParse(value) ==
    IF value[1] = "(Empty)" THEN 0
    ELSE IF value[1] \in {"Name", "Unknown/Invalid"} THEN value[2]
    ELSE 0

\* the first index of s holding 0, or Len(s) + 1: bytes.find(0)
RECURSIVE FindNul(_, _)
FindNul(s, i) ==
    IF i > Len(s) THEN i
    ELSE IF s[i] = 0 THEN i
    ELSE FindNul(s, i + 1)

\* the prefix read at prefix_offset: 10 bytes, cut at the first NUL, decoded
\* as ASCII; the editor shows "" when the bytes are not ASCII
DecodePrefix(b, prefix_offset) ==
    LET raw == [i \in 1..PREFIX_LEN |-> ByteAt(b, prefix_offset + i - 1)]
        cut == SubSeq(raw, 1, FindNul(raw, 1) - 1)
    IN IF \E i \in 1..Len(cut) : cut[i] > 127 THEN <<>> ELSE cut

\* the bytes of the prefix field before its first NUL:
\* prefix_bytes[:prefix_bytes.find(0)] of the 10 bytes at prefix_offset
PrefixBytes(b, prefix_offset) ==
    LET raw == [i \in 1..PREFIX_LEN |-> ByteAt(b, prefix_offset + i - 1)]
    IN SubSeq(raw, 1, FindNul(raw, 1) - 1)

\* a line "Slot i: ..." of update_user_details_display for item_id
DetailsImenuText(item_id) ==
    IF item_id = 0 THEN <<"(Empty)", 0>>
    ELSE IF InImenuNames(item_id) THEN <<"Name", item_id>>
    ELSE <<"Unknown/Invalid", item_id>>

\* user_details_text before a user setting is shown and after
\* update_user_settings_display emptied it
NoDetails ==
    [shown |-> FALSE, imenu |-> <<>>, prefix |-> [kind |-> "absent", text |-> <<>>]]

\* the details update_user_details_display builds for section: the i-menu
\* lines and the "File Prefix" line, which reads "(invalid)" when the bytes
\* are not ASCII and is absent when the field does not fit
update_user_details_display(b, section) ==
    [shown |-> TRUE,
     imenu |-> [i \in 1..IMENU_SLOTS |->
                   LET pos == section.offset + IMENU_OFFSET + (i - 1) * IMENU_STRIDE
                   IN IF pos < b.len THEN DetailsImenuText(ByteAt(b, pos))
                      ELSE BlankText],
     prefix |-> LET prefix_offset == section.offset + PREFIX_OFFSET
                    prefix_bytes == PrefixBytes(b, prefix_offset)
                IN IF ~(prefix_offset + PREFIX_LEN < b.len)
                   THEN [kind |-> "absent", text |-> <<>>]
                   ELSE IF \E i \in 1..Len(prefix_bytes) : prefix_bytes[i] > 127
                        THEN [kind |-> "invalid", text |-> <<>>]
                        ELSE [kind |-> "text", text |-> prefix_bytes]]

\* update_user_settings_display: the details of a U1, U2 or U3 section, and
\* an emptied text for any other section
update_user_settings_display(b, section) ==
    IF IsUserMode(section.mode_name)
    THEN update_user_details_display(b, section)
    ELSE NoDetails

\* load_section_settings: the i-menu texts, the prefix text and the details
\* text after it ran
load_section_settings(b, section, ivars, pvar) ==
    [imenu |-> [i \in 1..IMENU_SLOTS |->
                   LET pos == section.offset + IMENU_OFFSET + (i - 1) * IMENU_STRIDE
                   IN IF pos < b.len THEN ImenuText(ByteAt(b, pos)) ELSE ivars[i]],
     prefix |-> IF section.offset + PREFIX_OFFSET + PREFIX_LEN < b.len
                THEN DecodePrefix(b, section.offset + PREFIX_OFFSET)
                ELSE pvar,
     details |-> update_user_settings_display(b, section)]

\* the 'name' extract_section_settings exports for item_id:
\* self.imenu_names.get(item_id, f"Unknown ({item_id})")
ExportImenuName(item_id) ==
    IF InImenuNames(item_id) THEN <<"Name", item_id>> ELSE <<"Unknown", item_id>>

\* extract_section_settings: the dict exported for section
extract_section_settings(b, section) ==
    [mode_name |-> section.mode_name,
     mode_id |-> section.mode_id,
     imenu |-> [i \in {j \in 1..IMENU_SLOTS :
                         section.offset + IMENU_OFFSET + (j - 1) * IMENU_STRIDE < b.len} |->
                   LET item_id == ByteAt(b, section.offset + IMENU_OFFSET
                                               + (i - 1) * IMENU_STRIDE)
                   IN [id |-> item_id, name |-> ExportImenuName(item_id)]],
     file_prefix |-> IF section.offset + PREFIX_OFFSET + PREFIX_LEN < b.len
                     THEN DecodePrefix(b, section.offset + PREFIX_OFFSET)
                     ELSE <<>>]

\* load_custom_settings: the texts of a1_var, d2_var, e1_var after it ran
load_custom_settings(b, cv) ==
    IF ~HasData(b) \/ b.len = 0 THEN cv
    ELSE [a1 |-> IF A1_OFFSET < b.len
                 THEN (CASE ByteAt(b, A1_OFFSET) = 0 -> <<"Release", 0>>
                         [] ByteAt(b, A1_OFFSET) = 1 -> <<"Focus", 0>>
                         [] OTHER -> <<"Unknown", ByteAt(b, A1_OFFSET)>>)
                 ELSE cv.a1,
          d2 |-> IF D2_OFFSET < b.len
                 THEN <<"int", ByteAt(b, D2_OFFSET)>>
                 ELSE cv.d2,
          e1 |-> IF E1_OFFSET < b.len
                 THEN (CASE ByteAt(b, E1_OFFSET) = 184 -> <<"1/200 s", 0>>
                         [] ByteAt(b, E1_OFFSET) = 176 -> <<"1/160 s", 0>>
                         [] OTHER -> <<"Unknown", ByteAt(b, E1_OFFSET)>>)
                 ELSE cv.e1]

(***************************************************************************)
(* The mutations of file_data                                              *)
(***************************************************************************)
\* a faulty copy that does not restore the target's mode id
perform_settings_copy_norestore(b, source_offset, target_offset) ==
    LET n == IF b.len - source_offset < 0 THEN 0
             ELSE IF b.len - source_offset < SECTION_SIZE
                  THEN b.len - source_offset ELSE SECTION_SIZE
        F(q) == IF q >= target_offset /\ q < target_offset + n
                THEN ByteAt(b, q - target_offset + source_offset)
                ELSE ByteAt(b, q)
    IN FromBytes(b.len,
                 (DOMAIN b.nz)
                   \cup {p - source_offset + target_offset : p \in DOMAIN b.nz},
                 F)

\* a faulty copy that moves the window byte by byte in place, from its first
\* byte on: when the target starts d bytes after the source, inside the
\* source window, it reads bytes it has already written, and the target ends
\* up repeating the first d bytes of the source
perform_settings_copy_bytewise(b, source_offset, target_offset) ==
    LET n == IF b.len - source_offset < 0 THEN 0
             ELSE IF b.len - source_offset < SECTION_SIZE
                  THEN b.len - source_offset ELSE SECTION_SIZE
        d == target_offset - source_offset
        target_mode_id == ByteAt(b, target_offset + MODE_ID_OFFSET)
        F(q) == IF q = target_offset + MODE_ID_OFFSET THEN target_mode_id
                ELSE IF q >= target_offset /\ q < target_offset + n
                     THEN IF d > 0 /\ d < n
                          THEN ByteAt(b, source_offset + ((q - target_offset) % d))
                          ELSE ByteAt(b, q - target_offset + source_offset)
                     ELSE ByteAt(b, q)
    IN FromBytes(b.len,
                 (DOMAIN b.nz)
                   \cup {p - source_offset + target_offset : p \in DOMAIN b.nz}
                   \cup (target_offset..(target_offset + n - 1))
                   \cup {target_offset + MODE_ID_OFFSET},
                 F)

\* perform_settings_copy, for target_offset + 1240 < len(b)
perform_settings_copy(b, source_offset, target_offset) ==
    LET n == IF b.len - source_offset < 0 THEN 0
             ELSE IF b.len - source_offset < SECTION_SIZE
                  THEN b.len - source_offset ELSE SECTION_SIZE
        target_mode_id == ByteAt(b, target_offset + MODE_ID_OFFSET)
        F(q) == IF q = target_offset + MODE_ID_OFFSET THEN target_mode_id
                ELSE IF q >= target_offset /\ q < target_offset + n
                     THEN ByteAt(b, q - target_offset + source_offset)
                     ELSE ByteAt(b, q)
    IN FromBytes(b.len,
                 (DOMAIN b.nz)
                   \cup {p - source_offset + target_offset : p \in DOMAIN b.nz}
                   \cup {target_offset + MODE_ID_OFFSET},
                 F)

\* b"DSC"
DEFAULT_PREFIX == <<68, 83, 67>>

\* a faulty reset that clears the whole window, mode id included
perform_settings_reset_norestore(b, target_offset) ==
    LET prefix_offset == target_offset + PREFIX_OFFSET
        F(q) == IF q >= prefix_offset /\ q < prefix_offset + Len(DEFAULT_PREFIX)
                THEN DEFAULT_PREFIX[q - prefix_offset + 1]
                ELSE IF q >= target_offset /\ q < target_offset + SECTION_SIZE THEN 0
                ELSE ByteAt(b, q)
    IN FromBytes(b.len,
                 (DOMAIN b.nz)
                   \cup {prefix_offset + i : i \in 0..(Len(DEFAULT_PREFIX) - 1)},
                 F)

\* perform_settings_reset, for target_offset + 1240 < len(b)
perform_settings_reset(b, target_offset) ==
    LET target_mode_id == ByteAt(b, target_offset + MODE_ID_OFFSET)
        prefix_offset == target_offset + PREFIX_OFFSET
        F(q) == IF q >= prefix_offset /\ q < prefix_offset + Len(DEFAULT_PREFIX)
                THEN DEFAULT_PREFIX[q - prefix_offset + 1]
                ELSE IF q = target_offset + MODE_ID_OFFSET THEN target_mode_id
                ELSE IF q >= target_offset /\ q < target_offset + SECTION_SIZE THEN 0
                ELSE ByteAt(b, q)
    IN FromBytes(b.len,
                 (DOMAIN b.nz) \cup {target_offset + MODE_ID_OFFSET}
                   \cup {prefix_offset + i : i \in 0..(Len(DEFAULT_PREFIX) - 1)},
                 F)

\* the write loop of apply_imenu_changes for the section at offset
apply_imenu_changes(b, offset, ivars) ==
    LET slots == {offset + IMENU_OFFSET + i * IMENU_STRIDE : i \in 0..(IMENU_SLOTS - 1)}
        F(q) == IF q \in slots
                THEN ImenuParse(ivars[((q - offset - IMENU_OFFSET) \div IMENU_STRIDE) + 1])
                ELSE ByteAt(b, q)
    IN FromBytes(b.len, (DOMAIN b.nz) \cup slots, F)

\* prefix_var.get()[:10].encode('ascii', errors='ignore')
EncodePrefix(text) ==
    LET head == SubSeq(text, 1, IF Len(text) < PREFIX_LEN THEN Len(text) ELSE PREFIX_LEN)
    IN SelectSeq(head, LAMBDA c : c < 128)

\* a faulty apply_prefix_change without the clear loop
apply_prefix_change_noclear(b, offset, text) ==
    LET prefix_offset == offset + PREFIX_OFFSET
        prefix_bytes == EncodePrefix(text)
        F(q) == IF q >= prefix_offset /\ q < prefix_offset + Len(prefix_bytes)
                THEN prefix_bytes[q - prefix_offset + 1]
                ELSE ByteAt(b, q)
    IN FromBytes(b.len,
                 (DOMAIN b.nz) \cup {prefix_offset + i : i \in 0..(PREFIX_LEN - 1)},
                 F)

\* the clear and write loops of apply_prefix_change for the section at offset
apply_prefix_change(b, offset, text) ==
    LET prefix_offset == offset + PREFIX_OFFSET
        prefix_bytes == EncodePrefix(text)
        F(q) == IF q >= prefix_offset /\ q < prefix_offset + Len(prefix_bytes)
                THEN prefix_bytes[q - prefix_offset + 1]
                ELSE IF q >= prefix_offset /\ q < prefix_offset + PREFIX_LEN THEN 0
                ELSE ByteAt(b, q)
    IN FromBytes(b.len,
                 (DOMAIN b.nz) \cup {prefix_offset + i : i \in 0..(PREFIX_LEN - 1)},
                 F)

\* one store file_data[p] = v of on_custom_setting_change on the state
\* st = [data, fault]: an index past the end raises IndexError, and the
\* handler stops there
Store(st, wanted, p, v) ==
    IF st.fault \/ ~wanted THEN st
    ELSE IF p >= st.data.len THEN [st EXCEPT !.fault = TRUE]
    ELSE [st EXCEPT !.data = SetByte(st.data, p, v)]

\* on_custom_setting_change on a loaded buffer: the buffer it leaves and
\* whether it raised
on_custom_setting_change(b, cv) ==
    LET s0 == [data |-> b, fault |-> FALSE]
        s1 == Store(s0, cv.a1[1] \in {"Release", "Focus"}, A1_OFFSET,
                    IF cv.a1[1] = "Focus" THEN 1 ELSE 0)
        s2 == Store(s1, cv.d2[1] = "int" /\ cv.d2[2] >= 1 /\ cv.d2[2] <= 200,
                    D2_OFFSET, cv.d2[2])
    IN Store(s2, cv.e1[1] \in {"1/200 s", "1/160 s"}, E1_OFFSET,
             IF cv.e1[1] = "1/200 s" THEN 184 ELSE 176)

(***************************************************************************)
(* camera_uploader.py: CameraUploader.upload_menu_file, run by the upload  *)
(* command of main().  The files of the computer and of the camera drive   *)
(* are entries of disk; uploader.pc is the position of the call.           *)
(***************************************************************************)
MIN_MENU_SIZE == 1000
MAX_MENU_SIZE == 1000000

\* b'NIKON'
NIKON_HEADER == <<78, 73, 75, 79, 78>>

MENU_Z5_MK2 == "NCSET016.BIN"
MENU_Z5_MK1 == "NCSET006.BIN"

\* the names of the model that match the pattern NCSET*.BIN and are menu files
NcsetNames == {MENU_Z5_MK2, MENU_Z5_MK1, "NCSET001.BIN"}

\* f"{target_file.stem}_backup_{int(time.time())}{target_file.suffix}" for
\* the one time T at which the call runs
BackupName(target_file) ==
    CASE target_file = MENU_Z5_MK2 -> "NCSET016_backup_T.BIN"
      [] target_file = MENU_Z5_MK1 -> "NCSET006_backup_T.BIN"
      [] OTHER -> "NCSET001_backup_T.BIN"

\* _find_menu_file: the files it may return, none when it returns None; the
\* glob of the last pattern lists its matches in no defined order
find_menu_file(files) ==
    IF MENU_Z5_MK2 \in files THEN {MENU_Z5_MK2}
    ELSE IF MENU_Z5_MK1 \in files THEN {MENU_Z5_MK1}
    ELSE files \cap NcsetNames

\* header.startswith(b'NIKON') for header = f.read(32)
StartsWithNikon(b) ==
    /\ b.len >= Len(NIKON_HEADER)
    /\ \A i \in 1..Len(NIKON_HEADER) : ByteAt(b, i - 1) = NIKON_HEADER[i]

\* response.lower()
Lower(response) == IF response = "Y" THEN "y" ELSE response

\* CameraUploader() before main() calls upload_menu_file
IdleUploader ==
    [pc |-> "idle", safety_checks |-> TRUE, backup_existing |-> TRUE,
     source_file |-> "", target_file |-> "", error |-> "none",
     refused |-> FALSE, before |-> <<>>]

\* main() with the upload command, and upload_menu_file up to the safety
\* checks: cameras is whether a camera drive is given or detected; refused
\* and before are history (a warning was answered with something other than
\* y; the files when the call began)
UploadMenuFile(source_file, cameras, backup_existing, safety_checks) ==
    /\ uploader.pc = "idle"
    /\ IF source_file \notin DOMAIN disk
       THEN uploader' = [uploader EXCEPT !.pc = "failed",
                            !.safety_checks = safety_checks,
                            !.backup_existing = backup_existing,
                            !.source_file = source_file,
                            !.error = "source_not_found", !.before = disk]
       ELSE IF ~cameras
       THEN uploader' = [uploader EXCEPT !.pc = "failed",
                            !.safety_checks = safety_checks,
                            !.backup_existing = backup_existing,
                            !.source_file = source_file,
                            !.error = "no_camera", !.before = disk]
       ELSE \E target_file \in
                 IF find_menu_file((DOMAIN disk) \ {source_file}) = {}
                 THEN {MENU_Z5_MK1}
                 ELSE find_menu_file((DOMAIN disk) \ {source_file}) :
               uploader' = [uploader EXCEPT
                               !.pc = IF safety_checks THEN "checks" ELSE "backup",
                               !.safety_checks = safety_checks,
                               !.backup_existing = backup_existing,
                               !.source_file = source_file,
                               !.target_file = target_file,
                               !.before = disk]
    /\ UNCHANGED <<file_data, current_file, config_sections, modified, selection,
                   imenu_vars, prefix_var, custom_vars, copy_source_var, disk,
                   dialog, probe, last, used, user_details, exported>>

\* _perform_safety_checks: the uploader after it; writable is os.access,
\* readable is whether the source can be opened and read.  The RuntimeError
\* raised for the header warning is raised inside the try block and caught
\* by its except Exception, so the checks pass
perform_safety_checks(writable, size_response, readable, format_response) ==
    LET source == disk[uploader.source_file]
        size_warning == source.len < MIN_MENU_SIZE \/ source.len > MAX_MENU_SIZE
        format_warning == readable /\ ~StartsWithNikon(source)
    IN IF ~writable
       THEN [uploader EXCEPT !.pc = "failed", !.error = "not_writable"]
       ELSE IF size_warning /\ Lower(size_response) # "y"
       THEN [uploader EXCEPT !.pc = "failed", !.error = "cancelled",
                             !.refused = TRUE]
       ELSE IF format_warning /\ Lower(format_response) # "y"
       THEN [uploader EXCEPT !.pc = "backup", !.refused = TRUE]
       ELSE [uploader EXCEPT !.pc = "backup"]

\* the safety checks of upload_menu_file
PerformSafetyChecks(writable, size_response, readable, format_response) ==
    /\ uploader.pc = "checks"
    /\ uploader' = perform_safety_checks(writable, size_response, readable,
                                         format_response)
    /\ UNCHANGED <<file_data, current_file, config_sections, modified, selection,
                   imenu_vars, prefix_var, custom_vars, copy_source_var, disk,
                   dialog, probe, last, used, user_details, exported>>

\* the files after shutil.copy2(src, dst): written, not opened, or opened
\* (and so emptied) and not written
Copy2(files, src, dst, outcome) ==
    CASE outcome = "ok" ->
            [g \in (DOMAIN files) \cup {dst} |-> IF g = dst THEN files[src] ELSE files[g]]
      [] outcome = "partial" ->
            [g \in (DOMAIN files) \cup {dst} |->
                IF g = dst THEN [len |-> 0, nz |-> <<>>] ELSE files[g]]
      [] OTHER -> files

CopyOutcomes == {"ok", "partial", "refused"}

\* a faulty backup step that goes on to the upload when the copy fails
BackupExisting_ignored(outcome) ==
    /\ uploader.pc = "backup"
    /\ IF uploader.backup_existing /\ uploader.target_file \in DOMAIN disk
       THEN /\ disk' = Copy2(disk, uploader.target_file,
                             BackupName(uploader.target_file), outcome)
            /\ uploader' = IF outcome = "ok"
                           THEN [uploader EXCEPT !.pc = "upload"]
                           ELSE [uploader EXCEPT !.pc = "upload",
                                                 !.error = "backup_failed"]
       ELSE /\ outcome = "ok"
            /\ uploader' = [uploader EXCEPT !.pc = "upload"]
            /\ UNCHANGED disk
    /\ UNCHANGED <<file_data, current_file, config_sections, modified, selection,
                   imenu_vars, prefix_var, custom_vars, copy_source_var,
                   dialog, probe, last, used, user_details, exported>>

\* the backup step of upload_menu_file: the exception of a failed copy leaves
\* upload_menu_file and ends main()
BackupExisting(outcome) ==
    /\ uploader.pc = "backup"
    /\ IF uploader.backup_existing /\ uploader.target_file \in DOMAIN disk
       THEN /\ disk' = Copy2(disk, uploader.target_file,
                             BackupName(uploader.target_file), outcome)
            /\ uploader' = IF outcome = "ok"
                           THEN [uploader EXCEPT !.pc = "upload"]
                           ELSE [uploader EXCEPT !.pc = "failed",
                                                 !.error = "backup_failed"]
       ELSE /\ outcome = "ok"
            /\ uploader' = [uploader EXCEPT !.pc = "upload"]
            /\ UNCHANGED disk
    /\ UNCHANGED <<file_data, current_file, config_sections, modified, selection,
                   imenu_vars, prefix_var, custom_vars, copy_source_var,
                   dialog, probe, last, used, user_details, exported>>

\* the upload step of upload_menu_file
UploadFile(outcome) ==
    /\ uploader.pc = "upload"
    /\ disk' = Copy2(disk, uploader.source_file, uploader.target_file, outcome)
    /\ uploader' = IF outcome = "ok"
                   THEN [uploader EXCEPT !.pc = "done"]
                   ELSE [uploader EXCEPT !.pc = "failed", !.error = "upload_failed"]
    /\ UNCHANGED <<file_data, current_file, config_sections, modified, selection,
                   imenu_vars, prefix_var, custom_vars, copy_source_var,
                   dialog, probe, last, used, user_details, exported>>

(***************************************************************************)
(* Bounds and inputs of the editor model                                   *)
(***************************************************************************)
\* how many loads, edits, saves and checks one run of the editor makes at most
MaxOps == 3

\* a run of n bytes of value v starting at position at
Run(at, n, v) == [p \in at..(at + n - 1) |-> v]

\* a file that holds a U1 section at 0 and a Manual section at 4, found by
\* auto-detection: 70 bytes of other data, three i-menu entries, prefix "DSC"
FileA ==
    [len |-> 6640,
     nz |-> Run(3000, 70, 170) @@ (1240 :> 34) @@ (1244 :> 32)
            @@ (924 :> 31) @@ (928 :> 21) @@ (932 :> 200)
            @@ (1540 :> 68) @@ (1541 :> 83) @@ (1542 :> 67)]

EditorFiles == {FileA}
InputName == "in.bin"
SaveNames == {"out.bin"}
ImenuInputs ==
    {[slot |-> 1, value |-> <<"Name", 36>>],
     [slot |-> 12, value |-> <<"(Empty)", 0>>]}
PrefixInputs == {<<78, 90, 95>>, <<65, 233, 66, 67, 68, 69, 70, 71, 72, 73, 74, 75>>}
CustomInputs ==
    {[w |-> "a1", v |-> <<"Focus", 0>>],
     [w |-> "d2", v |-> <<"int", 150>>],
     [w |-> "e1", v |-> <<"1/160 s", 0>>]}

NoOp == [op |-> "init", prev |-> "init", pre |-> NoData, target |-> NoSel,
         source |-> NoSel, fault |-> FALSE]

\* the history record of a handler: its name, the name of the handler before
\* it, file_data before it, what it acted on and whether it raised
Done(op, pre, target, source, fault) ==
    [op |-> op, prev |-> last.op, pre |-> pre, target |-> target,
     source |-> source, fault |-> fault]

(***************************************************************************)
(* __init__                                                                *)
(***************************************************************************)
InitEditor ==
    /\ file_data = NoData
    /\ current_file = NoFile
    /\ config_sections = <<>>
    /\ modified = FALSE
    /\ selection = NoSel
    /\ imenu_vars = [i \in 1..IMENU_SLOTS |-> BlankText]
    /\ prefix_var = <<>>
    /\ custom_vars = [a1 |-> BlankText, d2 |-> BlankText, e1 |-> BlankText]
    /\ copy_source_var = NoSel
    /\ dialog = "none"
    /\ probe = [offset |-> -1, valid |-> FALSE, score |-> 0]
    /\ last = NoOp
    /\ used = [edits |-> 0, saves |-> 0, loads |-> 0, checks |-> 0]
    /\ user_details = NoDetails
    /\ exported = <<>>
    /\ uploader = IdleUploader

Init ==
    /\ InitEditor
    /\ disk \in {[f \in {InputName} |-> c] : c \in EditorFiles}

\* the run may still load, edit or save
OpsLeft == used.edits + used.saves + used.loads + used.checks < MaxOps

(***************************************************************************)
(* The handlers                                                            *)
(***************************************************************************)
\* open_file / load_file of an existing file f
OpenFile(f) ==
    /\ UNCHANGED <<exported, uploader>>
    /\ OpsLeft
    /\ f \in DOMAIN disk
    /\ LET b == disk[f]
           secs == find_config_sections(b)
           shown == load_section_settings(b, secs[FirstKey(secs)], imenu_vars, prefix_var)
       IN /\ file_data' = b
          /\ current_file' = f
          /\ modified' = FALSE
          /\ config_sections' = secs
          /\ IF DOMAIN secs # {}
             THEN /\ selection' = FirstKey(secs)
                  /\ imenu_vars' = shown.imenu
                  /\ prefix_var' = shown.prefix
                  /\ user_details' = shown.details
             ELSE /\ selection' = NoSel
                  /\ UNCHANGED <<imenu_vars, prefix_var, user_details>>
          /\ custom_vars' = load_custom_settings(b, custom_vars)
    /\ last' = Done("load", file_data, NoSel, NoSel, FALSE)
    /\ used' = [used EXCEPT !.loads = @ + 1]
    /\ UNCHANGED <<copy_source_var, disk, dialog, probe>>

\* on_mode_select after the user picks entry k of the listbox
SelectMode(k) ==
    /\ UNCHANGED <<exported, uploader>>
    /\ k \in DOMAIN config_sections
    /\ LET shown == load_section_settings(file_data, config_sections[k],
                                          imenu_vars, prefix_var)
       IN /\ selection' = k
          /\ imenu_vars' = shown.imenu
          /\ prefix_var' = shown.prefix
          /\ user_details' = shown.details
    /\ UNCHANGED <<file_data, current_file, config_sections, modified,
                   custom_vars, copy_source_var, disk, dialog, probe, last, used>>

\* the user picks section k in the copy-source combobox, which lists the
\* sections other than the displayed user setting
ChooseCopySource(k) ==
    /\ UNCHANGED <<user_details, exported, uploader>>
    /\ selection # NoSel
    /\ IsUserMode(config_sections[selection].mode_name)
    /\ k \in DOMAIN config_sections
    /\ k # selection
    /\ copy_source_var' = k
    /\ UNCHANGED <<file_data, current_file, config_sections, modified, selection,
                   imenu_vars, prefix_var, custom_vars, disk, dialog, probe, last,
                   used>>

\* on_imenu_change after the user picks value in the combobox of slot
ImenuChange(slot, value) ==
    /\ UNCHANGED <<user_details, exported, uploader>>
    /\ OpsLeft
    /\ imenu_vars' = [imenu_vars EXCEPT ![slot] = value]
    /\ modified' = TRUE
    /\ IF selection = NoSel
       THEN file_data' = file_data
       ELSE file_data' = apply_imenu_changes(file_data,
                             config_sections[selection].offset, imenu_vars')
    /\ last' = Done("imenu", file_data, selection, <<"slot", slot>>, FALSE)
    /\ used' = [used EXCEPT !.edits = @ + 1]
    /\ UNCHANGED <<current_file, config_sections, selection, prefix_var,
                   custom_vars, copy_source_var, disk, dialog, probe>>

\* on_prefix_change after the user types text in the prefix entry
PrefixChange(text) ==
    /\ UNCHANGED <<user_details, exported, uploader>>
    /\ OpsLeft
    /\ prefix_var' = text
    /\ modified' = TRUE
    /\ IF selection = NoSel
       THEN file_data' = file_data
       ELSE file_data' = apply_prefix_change(file_data,
                             config_sections[selection].offset, text)
    /\ last' = Done("prefix", file_data, selection, NoSel, FALSE)
    /\ used' = [used EXCEPT !.edits = @ + 1]
    /\ UNCHANGED <<current_file, config_sections, selection, imenu_vars,
                   custom_vars, copy_source_var, disk, dialog, probe>>

\* on_custom_setting_change after the user changes widget in.w to in.v
CustomSettingChange(in) ==
    /\ UNCHANGED <<user_details, exported, uploader>>
    /\ OpsLeft
    /\ custom_vars' = [custom_vars EXCEPT ![in.w] = in.v]
    /\ IF ~HasData(file_data) \/ file_data.len = 0
       THEN /\ UNCHANGED <<file_data, modified>>
            /\ last' = Done("custom", file_data, NoSel, NoSel, FALSE)
       ELSE LET st == on_custom_setting_change(file_data, custom_vars')
            IN /\ file_data' = st.data
               /\ modified' = IF st.fault THEN modified ELSE TRUE
               /\ last' = Done("custom", file_data, NoSel, NoSel, st.fault)
    /\ used' = [used EXCEPT !.edits = @ + 1]
    /\ UNCHANGED <<current_file, config_sections, selection, imenu_vars,
                   prefix_var, copy_source_var, disk, dialog, probe>>

\* copy_user_settings; answer is the user's reply to the confirmation
CopyUserSettings(answer) ==
    /\ UNCHANGED <<exported, uploader>>
    /\ OpsLeft
    /\ IF selection = NoSel
       THEN /\ dialog' = "warn_select"
            /\ last' = Done("copy_refused", file_data, NoSel, NoSel, FALSE)
            /\ UNCHANGED <<file_data, modified, imenu_vars, prefix_var, user_details>>
       ELSE IF ~IsUserMode(config_sections[selection].mode_name)
       THEN /\ dialog' = "warn_target"
            /\ last' = Done("copy_refused", file_data, selection, NoSel, FALSE)
            /\ UNCHANGED <<file_data, modified, imenu_vars, prefix_var, user_details>>
       ELSE IF copy_source_var = NoSel \/ copy_source_var \notin DOMAIN config_sections
       THEN /\ dialog' = "warn_source"
            /\ last' = Done("copy_refused", file_data, selection, NoSel, FALSE)
            /\ UNCHANGED <<file_data, modified, imenu_vars, prefix_var, user_details>>
       ELSE IF ~answer
       THEN /\ dialog' = "declined"
            /\ last' = Done("copy_refused", file_data, selection, copy_source_var, FALSE)
            /\ UNCHANGED <<file_data, modified, imenu_vars, prefix_var, user_details>>
       ELSE LET target_offset == config_sections[selection].offset
                source_offset == config_sections[copy_source_var].offset
            IN IF target_offset + MODE_ID_OFFSET >= file_data.len
               THEN \* IndexError, caught: "Failed to copy settings"
                    /\ dialog' = "copy_error"
                    /\ last' = Done("copy", file_data, selection, copy_source_var, TRUE)
                    /\ UNCHANGED <<file_data, modified, imenu_vars, prefix_var, user_details>>
               ELSE LET b == perform_settings_copy(file_data, source_offset, target_offset)
                        shown == load_section_settings(b, config_sections[selection],
                                                       imenu_vars, prefix_var)
                    IN /\ file_data' = b
                       /\ imenu_vars' = shown.imenu
                       /\ prefix_var' = shown.prefix
                       /\ user_details' = shown.details
                       /\ modified' = TRUE
                       /\ dialog' = "copied"
                       /\ last' = Done("copy", file_data, selection, copy_source_var, FALSE)
    /\ used' = [used EXCEPT !.edits = @ + 1]
    /\ UNCHANGED <<current_file, config_sections, selection, custom_vars,
                   copy_source_var, disk, probe>>

\* reset_user_settings; answer is the user's reply to the confirmation
ResetUserSettings(answer) ==
    /\ UNCHANGED <<exported, uploader>>
    /\ OpsLeft
    /\ IF selection = NoSel
       THEN /\ dialog' = "warn_select"
            /\ last' = Done("reset_refused", file_data, NoSel, NoSel, FALSE)
            /\ UNCHANGED <<file_data, modified, imenu_vars, prefix_var, user_details>>
       ELSE IF ~IsUserMode(config_sections[selection].mode_name)
       THEN /\ dialog' = "warn_target"
            /\ last' = Done("reset_refused", file_data, selection, NoSel, FALSE)
            /\ UNCHANGED <<file_data, modified, imenu_vars, prefix_var, user_details>>
       ELSE IF ~answer
       THEN /\ dialog' = "declined"
            /\ last' = Done("reset_refused", file_data, selection, NoSel, FALSE)
            /\ UNCHANGED <<file_data, modified, imenu_vars, prefix_var, user_details>>
       ELSE LET target_offset == config_sections[selection].offset
            IN IF target_offset + MODE_ID_OFFSET >= file_data.len
               THEN \* IndexError, caught: "Failed to reset settings"
                    /\ dialog' = "reset_error"
                    /\ last' = Done("reset", file_data, selection, NoSel, TRUE)
                    /\ UNCHANGED <<file_data, modified, imenu_vars, prefix_var, user_details>>
               ELSE LET b == perform_settings_reset(file_data, target_offset)
                        shown == load_section_settings(b, config_sections[selection],
                                                       imenu_vars, prefix_var)
                    IN /\ file_data' = b
                       /\ imenu_vars' = shown.imenu
                       /\ prefix_var' = shown.prefix
                       /\ user_details' = shown.details
                       /\ modified' = TRUE
                       /\ dialog' = "reset_done"
                       /\ last' = Done("reset", file_data, selection, NoSel, FALSE)
    /\ used' = [used EXCEPT !.edits = @ + 1]
    /\ UNCHANGED <<current_file, config_sections, selection, custom_vars,
                   copy_source_var, disk, probe>>

\* a faulty save that writes the buffer as it was before update_crc
save_to_file_stale(f) ==
    LET b == update_crc(file_data)
    IN /\ file_data' = b
       /\ \E io_ok \in BOOLEAN :
             /\ IF io_ok
                THEN /\ disk' = [g \in (DOMAIN disk) \cup {f} |->
                                    IF g = f THEN file_data ELSE disk[g]]
                     /\ modified' = FALSE
                     /\ dialog' = "saved"
                ELSE /\ dialog' = "save_error"
                     /\ UNCHANGED <<disk, modified>>
             /\ last' = Done(IF io_ok THEN "save" ELSE "save_failed", file_data,
                             <<f, 0>>, NoSel, ~io_ok)

\* save_to_file(f); io_ok is whether open(f, "wb") and the write succeed
save_to_file(f) ==
    LET b == update_crc(file_data)
    IN /\ file_data' = b
       /\ \E io_ok \in BOOLEAN :
             /\ IF io_ok
                THEN /\ disk' = [g \in (DOMAIN disk) \cup {f} |->
                                    IF g = f THEN b ELSE disk[g]]
                     /\ modified' = FALSE
                     /\ dialog' = "saved"
                ELSE /\ dialog' = "save_error"
                     /\ UNCHANGED <<disk, modified>>
             /\ last' = Done(IF io_ok THEN "save" ELSE "save_failed", file_data,
                             <<f, 0>>, NoSel, ~io_ok)

\* save_file
SaveFile ==
    /\ UNCHANGED <<user_details, exported, uploader>>
    /\ OpsLeft
    /\ current_file # NoFile
    /\ modified
    /\ save_to_file(current_file)
    /\ used' = [used EXCEPT !.saves = @ + 1]
    /\ UNCHANGED <<current_file, config_sections, selection, imenu_vars,
                   prefix_var, custom_vars, copy_source_var, probe>>

\* save_as_file with the file name f chosen in the dialog
SaveAsFile(f) ==
    /\ UNCHANGED <<user_details, exported, uploader>>
    /\ OpsLeft
    /\ HasData(file_data)
    /\ file_data.len > 0
    /\ save_to_file(f)
    /\ current_file' = f
    /\ used' = [used EXCEPT !.saves = @ + 1]
    /\ UNCHANGED <<config_sections, selection, imenu_vars, prefix_var,
                   custom_vars, copy_source_var, probe>>

\* verify_crc, the Verify CRC command: dialog is the message box it shows,
\* "none" when it returns without showing one
VerifyCrc ==
    /\ UNCHANGED <<user_details, exported, uploader>>
    /\ OpsLeft
    /\ current_file # NoFile
    /\ dialog' = verify_crc(file_data)
    /\ last' = Done("verify", file_data, NoSel, NoSel, FALSE)
    /\ used' = [used EXCEPT !.checks = @ + 1]
    /\ UNCHANGED <<file_data, current_file, config_sections, modified, selection,
                   imenu_vars, prefix_var, custom_vars, copy_source_var, disk,
                   probe>>

\* a direct call of is_valid_config_section(offset) and
\* score_config_section(offset) on the loaded buffer
ProbeSection(offset) ==
    /\ UNCHANGED <<user_details, exported, uploader>>
    /\ OpsLeft
    /\ HasData(file_data)
    /\ probe' = [offset |-> offset,
                 valid |-> is_valid_config_section(file_data, offset),
                 score |-> score_config_section(file_data, offset)]
    /\ last' = Done("probe", file_data, NoSel, NoSel, FALSE)
    /\ used' = [used EXCEPT !.checks = @ + 1]
    /\ UNCHANGED <<file_data, current_file, config_sections, modified, selection,
                   imenu_vars, prefix_var, custom_vars, copy_source_var, disk,
                   dialog>>

\* export_settings with a file name chosen in the dialog; io_ok is whether
\* the JSON file could be written
ExportSettings(io_ok) ==
    /\ OpsLeft
    /\ DOMAIN config_sections # {}
    /\ IF io_ok
       THEN /\ exported' = [k \in DOMAIN config_sections |->
                               extract_section_settings(file_data, config_sections[k])]
            /\ dialog' = "exported"
       ELSE /\ dialog' = "export_error"
            /\ UNCHANGED exported
    /\ last' = Done("export", file_data, NoSel, NoSel, ~io_ok)
    /\ used' = [used EXCEPT !.checks = @ + 1]
    /\ UNCHANGED <<file_data, current_file, config_sections, modified, selection,
                   imenu_vars, prefix_var, custom_vars, copy_source_var, disk,
                   probe, user_details, uploader>>

Next ==
    \/ \E f \in {InputName} \cup SaveNames : OpenFile(f)
    \/ \E k \in DOMAIN config_sections : SelectMode(k)
    \/ \E k \in DOMAIN config_sections : ChooseCopySource(k)
    \/ \E in \in ImenuInputs : ImenuChange(in.slot, in.value)
    \/ \E text \in PrefixInputs : PrefixChange(text)
    \/ \E in \in CustomInputs : CustomSettingChange(in)
    \/ \E answer \in BOOLEAN : CopyUserSettings(answer)
    \/ \E answer \in BOOLEAN : ResetUserSettings(answer)
    \/ SaveFile
    \/ \E f \in SaveNames : SaveAsFile(f)

Spec == Init /\ [][Next]_vars

(***************************************************************************)
(* Properties of the editor                                                *)
(***************************************************************************)
\* the file that the last save wrote
SavedBlob == disk[last.target[1]]

\* the section the last copy or reset acted on, and the source of the copy
TargetOffset == config_sections[last.target].offset
SourceOffset == config_sections[last.source].offset

\* C1: after any sequence of loads, edits and saves, a blob of length >= 2
\* that save_to_file has just written ends with the big-endian CRC-16 of all
\* the bytes before it, and is the buffer the editor holds.
C1_SavedBlobCarriesItsCrc ==
    last.op = "save" =>
        /\ SavedBlob = file_data
        /\ SavedBlob.len >= 2 =>
              /\ ByteAt(SavedBlob, SavedBlob.len - 2) * 256
                   + ByteAt(SavedBlob, SavedBlob.len - 1)
                 = calculate_crc16(SavedBlob, SavedBlob.len - 2)
              /\ \A p \in 0..(SavedBlob.len - 3) :
                    p \in DOMAIN SavedBlob.nz \cup DOMAIN last.pre.nz
                        => ByteAt(SavedBlob, p) = ByteAt(last.pre, p)

\* a save that followed an edit and had to rewrite the checksum bytes
C1_Witness ==
    /\ last.op = "save"
    /\ last.prev \in {"imenu", "prefix", "custom", "copy", "reset"}
    /\ modified = FALSE
    /\ SavedBlob.len >= 2
    /\ SavedBlob # last.pre

\* C4: after a copy from section S to section T, the byte at T + 1240 is
\* the byte it was before the copy, whatever byte S holds at S + 1240.
C4_CopyKeepsTargetModeId ==
    (last.op = "copy" /\ ~last.fault) =>
        ByteAt(file_data, TargetOffset + MODE_ID_OFFSET)
            = ByteAt(last.pre, TargetOffset + MODE_ID_OFFSET)

\* a copy that changed the target, from a source with another mode id
C4_Witness ==
    /\ last.op = "copy"
    /\ ~last.fault
    /\ file_data # last.pre
    /\ ByteAt(last.pre, SourceOffset + MODE_ID_OFFSET)
         # ByteAt(last.pre, TargetOffset + MODE_ID_OFFSET)
    /\ ByteAt(file_data, TargetOffset + MODE_ID_OFFSET) = 34

\* C5: after a reset of section T, the byte at T + 1240 is the byte it was
\* before, the three bytes at T + 1540 are "DSC" and decode to the prefix
\* "DSC", and every other byte of the 6628 bytes of T is 0.
C5_ResetLeavesModeIdAndDsc ==
    (last.op = "reset" /\ ~last.fault) =>
        /\ ByteAt(file_data, TargetOffset + MODE_ID_OFFSET)
             = ByteAt(last.pre, TargetOffset + MODE_ID_OFFSET)
        /\ ByteAt(file_data, TargetOffset + PREFIX_OFFSET) = 68
        /\ ByteAt(file_data, TargetOffset + PREFIX_OFFSET + 1) = 83
        /\ ByteAt(file_data, TargetOffset + PREFIX_OFFSET + 2) = 67
        /\ DecodePrefix(file_data, TargetOffset + PREFIX_OFFSET) = <<68, 83, 67>>
        /\ \A p \in DOMAIN file_data.nz :
              (p >= TargetOffset /\ p < TargetOffset + SECTION_SIZE)
                  => p \in {TargetOffset + MODE_ID_OFFSET,
                            TargetOffset + PREFIX_OFFSET,
                            TargetOffset + PREFIX_OFFSET + 1,
                            TargetOffset + PREFIX_OFFSET + 2}

\* a reset of a section that held other data, with its mode id still there
C5_Witness ==
    /\ last.op = "reset"
    /\ ~last.fault
    /\ ByteAt(file_data, TargetOffset + MODE_ID_OFFSET) = 34
    /\ \E p \in DOMAIN last.pre.nz :
          /\ p >= TargetOffset
          /\ p < TargetOffset + SECTION_SIZE
          /\ ByteAt(file_data, p) = 0

(***************************************************************************)
(* The checksum code on short files: Open, an i-menu change, Save,         *)
(* Save As and Verify CRC on every file of at most MaxCrcLen bytes drawn   *)
(* from CrcByteInputs, and on the file "123456789" plus two bytes          *)
(***************************************************************************)
MaxCrcLen == 3

CrcByteInputs == {0, 1, 255}

\* the ASCII digits "123456789" followed by two checksum bytes
CheckFile == BufferOf(<<49, 50, 51, 52, 53, 54, 55, 56, 57, 0, 0>>)

CrcFiles ==
    {BufferOf(bytes) :
        bytes \in UNION {[1..n -> CrcByteInputs] : n \in 0..MaxCrcLen}}
      \cup {CheckFile}

InitCrc ==
    /\ InitEditor
    /\ disk \in {[f \in {InputName} |-> c] : c \in CrcFiles}

NextCrc ==
    \/ \E f \in {InputName} \cup SaveNames : OpenFile(f)
    \/ \E in \in ImenuInputs : ImenuChange(in.slot, in.value)
    \/ SaveFile
    \/ \E f \in SaveNames : SaveAsFile(f)
    \/ VerifyCrc

SpecCrc == InitCrc /\ [][NextCrc]_vars

\* the last handler, or the one before a Verify CRC, was a save attempt:
\* file_data is then the buffer update_crc left
Saves == {"save", "save_failed"}

\* C2: on a buffer of at least 2 bytes that update_crc has just finalized,
\* Verify CRC reports a valid checksum.
C2_VerifyAfterFinalize ==
    (last.op = "verify" /\ last.prev \in Saves /\ file_data.len >= 2)
        => dialog = "valid"

\* Verify CRC run right after a save, on a buffer whose checksum is not 0
C2_Witness ==
    /\ last.op = "verify"
    /\ last.prev \in Saves
    /\ file_data.len >= 3
    /\ dialog = "valid"
    /\ ByteAt(file_data, file_data.len - 2) # 0
    /\ ByteAt(file_data, file_data.len - 1) # 0

\* C2 as stated, for every byte sequence: Verify CRC after update_crc
\* reports a valid checksum whatever the length of the buffer.
C2_AnyLength ==
    (last.op = "verify" /\ last.prev \in Saves) => dialog = "valid"

\* C3: a second update_crc right after a first leaves the whole buffer, and
\* so its two trailing bytes, as the first left them.
C3_SecondFinalizeChangesNothing ==
    (last.op \in Saves /\ last.prev \in Saves) =>
        /\ file_data = last.pre
        /\ file_data.len >= 2 =>
             /\ ByteAt(file_data, file_data.len - 2)
                  = ByteAt(last.pre, file_data.len - 2)
             /\ ByteAt(file_data, file_data.len - 1)
                  = ByteAt(last.pre, file_data.len - 1)

\* two saves in a row of a buffer that carries a non-zero checksum
C3_Witness ==
    /\ last.op \in Saves
    /\ last.prev \in Saves
    /\ file_data.len >= 3
    /\ ByteAt(file_data, file_data.len - 2) # 0
    /\ file_data = last.pre

\* bit k (from 1, most significant bit of each byte first) of b[:n]
MessageBit(b, k) ==
    LET byte == ByteAt(b, (k - 1) \div 8)
        shift == 7 - ((k - 1) % 8)
    IN (byte \div (2 ^ shift)) % 2

RECURSIVE PolyRemainder(_, _, _, _, _)
\* CRC-16/XMODEM by its definition: the remainder of the message, taken as
\* a polynomial over GF(2) and multiplied by x^16, divided by
\* x^16 + x^12 + x^5 + 1 (0x11021).  reg is the remainder so far; the step
\* takes in bits lo..hi of the nbits message bits followed by 16 zero bits
PolyRemainder(b, reg, lo, hi, nbits) ==
    IF lo > hi THEN reg
    ELSE IF lo = hi
    THEN LET bit == IF lo <= nbits THEN MessageBit(b, lo) ELSE 0
             shifted == reg * 2 + bit
         IN IF shifted >= 65536 THEN BitXor(shifted, 69665) ELSE shifted
    ELSE LET mid == (lo + hi) \div 2
             left == PolyRemainder(b, reg, lo, mid, nbits)
         IN IF left >= 0 THEN PolyRemainder(b, left, mid + 1, hi, nbits) ELSE left

XmodemReference(b, n) == PolyRemainder(b, 0, 1, 8 * n + 16, 8 * n)

\* C10: calculate_crc16 equals the CRC-16/XMODEM reference on every prefix
\* of every buffer, lies in 0..65535, is 0 on the empty sequence, and is
\* 0x31C3 on "123456789"; the bytes update_crc stores are that value.
C10_CrcIsXmodem ==
    HasData(file_data) =>
        /\ \A n \in 0..file_data.len :
              /\ calculate_crc16(file_data, n) = XmodemReference(file_data, n)
              /\ calculate_crc16(file_data, n) \in 0..65535
        /\ calculate_crc16(file_data, 0) = 0
        /\ calculate_crc16(CheckFile, 9) = 12739
        /\ (last.op \in Saves /\ file_data.len >= 2) =>
              ByteAt(file_data, file_data.len - 2) * 256
                + ByteAt(file_data, file_data.len - 1)
                  = XmodemReference(file_data, file_data.len - 2)

\* a save of the file "123456789" stored 0x31C3 behind it
C10_Witness ==
    /\ last.op = "save"
    /\ last.pre = CheckFile
    /\ ByteAt(file_data, 9) = 49
    /\ ByteAt(file_data, 10) = 195
    /\ calculate_crc16(file_data, 9) = XmodemReference(file_data, 9)

\* C11: Verify CRC reports a valid checksum exactly when the CRC of all
\* bytes but the last two equals the last two bytes read as a big-endian
\* 16-bit number; on a buffer of fewer than 2 bytes it reports nothing (not
\* valid) and does not raise; it leaves the buffer as it was.
C11_VerifyComparesBigEndian ==
    last.op = "verify" =>
        /\ file_data = last.pre
        /\ ~last.fault
        /\ file_data.len < 2 => dialog = "none"
        /\ file_data.len >= 2 =>
              /\ dialog \in {"valid", "mismatch"}
              /\ dialog = "valid" <=>
                    XmodemReference(file_data, file_data.len - 2)
                      = 256 * ByteAt(file_data, file_data.len - 2)
                          + ByteAt(file_data, file_data.len - 1)

\* Verify CRC on a loaded buffer whose two last bytes differ and are not its
\* checksum
C11_Witness ==
    /\ last.op = "verify"
    /\ last.prev = "load"
    /\ file_data.len >= 3
    /\ dialog = "mismatch"
    /\ ByteAt(file_data, file_data.len - 2) # ByteAt(file_data, file_data.len - 1)

(***************************************************************************)
(* The validator on windows around the density threshold: Open, then       *)
(* direct calls of is_valid_config_section and score_config_section        *)
(***************************************************************************)
\* twelve i-menu bytes: all 0; three known ids and two unknown ones; all 255
ImenuPatterns ==
    {[i \in 1..IMENU_SLOTS |-> 0],
     <<31, 21, 80, 81, 200, 0, 0, 0, 0, 0, 0, 0>>,
     [i \in 1..IMENU_SLOTS |-> 255]}

\* lengths one byte short of a section, exactly one section, and two more
ValidatorLens == {SECTION_SIZE - 1, SECTION_SIZE, SECTION_SIZE + 2}

\* how many bytes of other data the file holds, from position 2000 on
FillInputs == {0, 33, 62, 66, 67}

ProbeOffsets == {0, 1, 2}

\* the file of n bytes with fill bytes of value 170 from position 2000 on
\* and the i-menu bytes im at 924, 928, ..., 968
ValidatorFile(n, fill, im) ==
    LET slots == {IMENU_OFFSET + i * IMENU_STRIDE : i \in 0..(IMENU_SLOTS - 1)}
        F(q) == IF q \in slots THEN im[((q - IMENU_OFFSET) \div IMENU_STRIDE) + 1]
                ELSE IF q >= 2000 /\ q < 2000 + fill THEN 170
                ELSE 0
    IN FromBytes(n, slots \cup (2000..(2000 + fill - 1)), F)

ValidatorFiles ==
    {ValidatorFile(n, fill, im) :
        n \in ValidatorLens, fill \in FillInputs, im \in ImenuPatterns}

InitValidator ==
    /\ InitEditor
    /\ disk \in {[f \in {InputName} |-> c] : c \in ValidatorFiles}

NextValidator ==
    \/ \E f \in {InputName} : OpenFile(f)
    \/ \E offset \in ProbeOffsets : ProbeSection(offset)

SpecValidator == InitValidator /\ [][NextValidator]_vars

\* the number of non-zero bytes among the 6628 bytes of b from offset on,
\* counted byte by byte
WindowNonZero(b, offset) ==
    Cardinality({p \in offset..(offset + SECTION_SIZE - 1) :
                    p < b.len /\ ByteAt(b, p) # 0})

\* the number of i-menu slots of the section at offset that hold a key of
\* the name table
KnownSlots(b, offset) ==
    Cardinality({i \in 0..11 : ByteAt(b, offset + 924 + 4 * i) \in 0..80})

\* the window probed last lies inside the buffer
ProbeFits == probe.offset + 6628 <= file_data.len

\* C6: is_valid_config_section is false when offset + 6628 > len; else it is
\* true iff the non-zero bytes are at least 1% of the 6628, that is at least
\* 67 of them: 66 bytes (0.996%) and 33 bytes (0.5%) are not enough.
C6_PlausibleIffOnePercent ==
    last.op = "probe" =>
        LET nonzero == WindowNonZero(file_data, probe.offset)
        IN /\ ~ProbeFits => ~probe.valid
           /\ ProbeFits => (probe.valid <=> nonzero * 100 >= 6628)
           /\ ProbeFits => (probe.valid <=> nonzero >= 67)
           /\ (ProbeFits /\ nonzero * 200 <= 6628) => ~probe.valid

\* a window of exactly 6628 bytes, the whole file, with 67 non-zero bytes,
\* found plausible
C6_Witness ==
    /\ last.op = "probe"
    /\ probe.offset + 6628 = file_data.len
    /\ WindowNonZero(file_data, probe.offset) = 67
    /\ probe.valid

\* C7: score_config_section is 0 when the window is not plausible; else it
\* is density * 50 + valid_entries * 5 (here times 6628, density being
\* nonzero / 6628), valid_entries counting the 12 bytes at offset + 924 + 4i
\* that are keys of the name table.
C7_ScoreFormula ==
    last.op = "probe" =>
        LET nonzero == WindowNonZero(file_data, probe.offset)
            plausible == ProbeFits /\ nonzero * 100 >= 6628
        IN /\ ~plausible => probe.score = 0
           /\ plausible =>
                probe.score = nonzero * 50
                              + KnownSlots(file_data, probe.offset) * 5 * 6628

\* a plausible window with known, unknown and empty i-menu bytes
C7_Witness ==
    /\ last.op = "probe"
    /\ probe.valid
    /\ probe.score > 0
    /\ KnownSlots(file_data, probe.offset) = 10
    /\ ByteAt(file_data, probe.offset + 924) = 31
    /\ ByteAt(file_data, probe.offset + 924 + 16) = 200

(***************************************************************************)
(* The end-to-end scenario: a 350000-byte buffer of zeros plus two         *)
(* checksum bytes whose section at 250612 holds mode id 32, i-menu bytes   *)
(* 31 and 21 and the prefix "DSC"; and the same buffer with 70 more        *)
(* non-zero bytes inside that section                                      *)
(***************************************************************************)
ScenarioOffset == standard_sections_mk2[1].offset

ScenarioFile ==
    [len |-> 350000 + 2,
     nz |-> (ScenarioOffset + MODE_ID_OFFSET :> 32)
            @@ (ScenarioOffset + IMENU_OFFSET :> 31)
            @@ (ScenarioOffset + IMENU_OFFSET + IMENU_STRIDE :> 21)
            @@ (ScenarioOffset + PREFIX_OFFSET :> 68)
            @@ (ScenarioOffset + PREFIX_OFFSET + 1 :> 83)
            @@ (ScenarioOffset + PREFIX_OFFSET + 2 :> 67)]

FilledScenarioFile ==
    [ScenarioFile EXCEPT !.nz = @ @@ Run(ScenarioOffset + 3000, 70, 170)]

ScenarioFiles == {ScenarioFile, FilledScenarioFile}

\* the scenario's section, the window that would put its byte 31 at + 1240,
\* and two other table offsets
ScenarioProbes ==
    {ScenarioOffset,
     ScenarioOffset + IMENU_OFFSET - MODE_ID_OFFSET,
     standard_sections_mk2[2].offset,
     standard_sections_mk1[1].offset}

InitScenario ==
    /\ InitEditor
    /\ disk \in {[f \in {InputName} |-> c] : c \in ScenarioFiles}

NextScenario ==
    \/ \E f \in {InputName} : OpenFile(f)
    \/ \E k \in DOMAIN config_sections : SelectMode(k)
    \/ \E offset \in ScenarioProbes : ProbeSection(offset)
    \/ \E f \in SaveNames : SaveAsFile(f)
    \/ VerifyCrc

SpecScenario == InitScenario /\ [][NextScenario]_vars

\* the sections of config_sections that start at the scenario's offset
LocatedAtScenario ==
    {k \in DOMAIN config_sections : config_sections[k].offset = ScenarioOffset}

\* file_data holds the bytes of c, but for its two checksum bytes
HoldsFile(c) ==
    /\ HasData(file_data)
    /\ file_data.len = c.len
    /\ \A p \in DOMAIN c.nz \cup DOMAIN file_data.nz :
          p < c.len - 2 => ByteAt(file_data, p) = ByteAt(c, p)

FilledSection(start, mode_id) ==
    Run(start + 3000, 70, 170) @@ (start + MODE_ID_OFFSET :> mode_id)

\* a file with Mark 1 sections only: Program at the first entry, Manual at
\* the U1 entry, U2 at the U2 entry, and at the U3 entry the byte 36 alone
Mk1File ==
    [len |-> 203000,
     nz |-> FilledSection(standard_sections_mk1[1].offset, 29)
            @@ FilledSection(standard_sections_mk1[3].offset, 32)
            @@ FilledSection(standard_sections_mk1[4].offset, 35)
            @@ (standard_sections_mk1[5].offset + MODE_ID_OFFSET :> 36)]

\* a file with sections of both tables: Manual at the first Mark 2 entry,
\* with the byte 30 at + 316, U1 at the Mark 2 U1 entry, and Program at the
\* first Mark 1 entry
Mk2File ==
    [len |-> 345000,
     nz |-> FilledSection(standard_sections_mk2[1].offset, 32)
            @@ (standard_sections_mk2[1].offset + MK2_MODE_ID_OFFSET :> 30)
            @@ FilledSection(standard_sections_mk2[3].offset, 34)
            @@ FilledSection(standard_sections_mk1[1].offset, 29)]

\* a file with one section, Auto, at an offset of neither table
AutoFile == [len |-> 203000, nz |-> FilledSection(100000, 33)]

LocatorFiles == {Mk1File, Mk2File, AutoFile}

LocatorProbes ==
    {100000, standard_sections_mk1[1].offset, standard_sections_mk1[3].offset,
     standard_sections_mk1[5].offset, standard_sections_mk2[1].offset}

InitLocator ==
    /\ InitEditor
    /\ disk \in {[f \in {InputName} |-> c] : c \in LocatorFiles}

NextLocator ==
    \/ \E f \in {InputName} : OpenFile(f)
    \/ \E k \in DOMAIN config_sections : SelectMode(k)
    \/ \E offset \in LocatorProbes : ProbeSection(offset)

SpecLocator == InitLocator /\ [][NextLocator]_vars

\* a file is loaded and file_data still holds its bytes
Loaded == current_file # NoFile /\ file_data = disk[current_file]

\* the window of 6628 bytes at offset lies in the buffer and at least 1% of
\* its bytes are non-zero
Plausible(b, offset) ==
    /\ offset + 6628 <= b.len
    /\ WindowNonZero(b, offset) * 100 >= 6628

\* the entries of a table whose offset is plausible in file_data
Hits(table) == {i \in 1..Len(table) : Plausible(file_data, table[i].offset)}

\* the table the known-offset probe reports from: Mark 2 when one of its
\* offsets is plausible, else Mark 1
TableInUse ==
    IF Hits(standard_sections_mk2) # {} THEN standard_sections_mk2
    ELSE standard_sections_mk1

SourceInUse ==
    IF Hits(standard_sections_mk2) # {} THEN "standard_mk2" ELSE "standard_mk1"

\* the start offsets of the sections reported with the given source
Reported(source) ==
    {config_sections[k].offset :
        k \in {j \in DOMAIN config_sections : config_sections[j].source = source}}

\* the byte at offset + 1240 is the id of the user setting the entry is for
AcceptedMode(entry) ==
    LET mode_id == ByteAt(file_data, entry.offset + 1240)
    IN /\ entry.name = "U1" => mode_id = 34
       /\ entry.name = "U2" => mode_id = 35
       /\ entry.name = "U3" => mode_id = 36

\* C12, as the code behaves: the known-offset probe keeps an offset of the
\* table in use iff the window there is plausible; the byte at offset + 1240
\* is not tested, so a plausible U1, U2 or U3 offset is reported whatever
\* mode id it holds, and an offset that is not plausible is not reported.
C12_ProbeKeepsPlausibleOffsets ==
    Loaded =>
        \A i \in 1..Len(TableInUse) :
            TableInUse[i].offset \in Reported(SourceInUse)
                <=> Plausible(file_data, TableInUse[i].offset)

\* the U1 offset of the Mark 1 table is reported although it holds the mode
\* id of Manual, and the U3 offset, which holds 36 but little else, is not
C12_Witness ==
    /\ Loaded
    /\ SourceInUse = "standard_mk1"
    /\ standard_sections_mk1[3].offset \in Reported("standard_mk1")
    /\ ByteAt(file_data, standard_sections_mk1[3].offset + 1240) = 32
    /\ standard_sections_mk1[5].offset \notin Reported("standard_mk1")

\* C12 as stated: an offset of the table in use is kept iff the window is
\* plausible and, for a U1, U2 or U3 entry, the byte at offset + 1240 is the
\* id of that user setting.
C12_ProbeAlsoTestsModeId ==
    Loaded =>
        \A i \in 1..Len(TableInUse) :
            TableInUse[i].offset \in Reported(SourceInUse)
                <=> (Plausible(file_data, TableInUse[i].offset)
                       /\ AcceptedMode(TableInUse[i]))

\* C13: for every section the locator reports, from a table or from the
\* scan, mode_id is the byte at start + 1240, and mode_name is the name of
\* that id or "Unknown Mode N" for an id N outside 29..36.
C13_ModeIdIsByteAt1240 ==
    Loaded =>
        \A k \in DOMAIN config_sections :
            LET mode_id == ByteAt(file_data, config_sections[k].offset + 1240)
            IN /\ config_sections[k].mode_id = mode_id
               /\ mode_id \in 29..36 =>
                     config_sections[k].mode_name = ModeName(mode_id)
               /\ mode_id \notin 29..36 =>
                     config_sections[k].mode_name = <<"Unknown Mode", mode_id>>

\* the sections reported are those of one table, or those of the scan
OneSource ==
    \A j, k \in DOMAIN config_sections :
        config_sections[j].source = config_sections[k].source

\* the start offsets of the candidates of the scan: p - 1240 >= 0 for a
\* position p that holds a mode id, with a plausible window
ScanCandidates(b, mode_id) ==
    {c \in {p - 1240 : p \in {q \in DOMAIN b.nz : b.nz[q] = mode_id}} :
        c >= 0 /\ Plausible(b, c)}

\* C16: when an offset of the Mark 2 table is plausible the sections are all
\* from the Mark 2 table; else when one of the Mark 1 table is, they are all
\* from the Mark 1 table; the scan's sections are reported iff no table
\* offset is plausible and the scan finds a candidate.  Tables are never
\* mixed with one another or with the scan.
C16_FirstStrategyWins ==
    Loaded =>
        LET hits2 == Hits(standard_sections_mk2)
            hits1 == Hits(standard_sections_mk1)
        IN /\ OneSource
           /\ hits2 # {} =>
                 /\ config_sections # <<>>
                 /\ \A k \in DOMAIN config_sections :
                       /\ config_sections[k].source = "standard_mk2"
                       /\ \E i \in hits2 : config_sections[k].offset
                                               = standard_sections_mk2[i].offset
           /\ (hits2 = {} /\ hits1 # {}) =>
                 /\ config_sections # <<>>
                 /\ \A k \in DOMAIN config_sections :
                       /\ config_sections[k].source = "standard_mk1"
                       /\ \E i \in hits1 : config_sections[k].offset
                                               = standard_sections_mk1[i].offset
           /\ (\E k \in DOMAIN config_sections : config_sections[k].source = "auto")
                 <=> (/\ hits2 = {}
                      /\ hits1 = {}
                      /\ \E m \in 29..36 : ScanCandidates(file_data, m) # {})

\* a file with plausible offsets of both tables, and with a byte 29 that the
\* scan would take, was loaded: only Mark 2 sections are reported
C16_Witness ==
    /\ Loaded
    /\ Hits(standard_sections_mk2) # {}
    /\ Hits(standard_sections_mk1) # {}
    /\ ScanCandidates(file_data, 29) # {}
    /\ Cardinality(DOMAIN config_sections) = 2
    /\ \A k \in DOMAIN config_sections : config_sections[k].source = "standard_mk2"

(***************************************************************************)
(* The scan and the edits on small files: Open, selections, i-menu, prefix *)
(* and custom-setting changes on an empty file, a file of zeros, a file    *)
(* shorter than a section, a file with a lone mode id, and a file whose    *)
(* scan has several candidates                                             *)
(***************************************************************************)
EmptyFile == [len |-> 0, nz |-> <<>>]

ZeroFile == [len |-> 6640, nz |-> <<>>]

\* 1700 bytes: a1 (1628) lies in the file, d2 (1940) and e1 (1964) do not
ShortFile == [len |-> 1700, nz |-> Run(100, 70, 170) @@ (1240 :> 32)]

\* the byte 32 at 1300 and zeros: the window at 60 is not plausible
LoneModeFile == [len |-> 6700, nz |-> (1300 :> 32)]

\* the byte 32 at 1240 and at 1250 and the byte 34 at 1244: candidates at 0
\* and 10 for Manual and at 4 for U1.  The window at 0 has an unknown id
\* (200) in its first i-menu slot; the first i-menu slots of the windows at
\* 4 and 10 hold 0 followed by a non-zero byte; the prefix field of the
\* window at 10 holds "ABCDEFGHIJ"
ManyCandidatesFile ==
    [len |-> 6700,
     nz |-> Run(3000, 70, 170) @@ (1240 :> 32) @@ (1250 :> 32) @@ (1244 :> 34)
            @@ (924 :> 200) @@ (929 :> 8) @@ (935 :> 7)
            @@ [p \in 1550..1559 |-> 65 + p - 1550]]

EditFiles == {EmptyFile, ZeroFile, ShortFile, LoneModeFile, ManyCandidatesFile}

EditImenuInputs == {[slot |-> 1, value |-> <<"Name", 36>>]}

\* "NZ_", "0123456789", and 12 characters of which the second is not ASCII
EditPrefixInputs ==
    {<<78, 90, 95>>,
     <<48, 49, 50, 51, 52, 53, 54, 55, 56, 57>>,
     <<65, 233, 66, 67, 68, 69, 70, 71, 72, 73, 74, 75>>}

InitEdits ==
    /\ InitEditor
    /\ disk \in {[f \in {InputName} |-> c] : c \in EditFiles}

NextEdits ==
    \/ \E f \in {InputName} : OpenFile(f)
    \/ \E k \in DOMAIN config_sections : SelectMode(k)
    \/ \E in \in EditImenuInputs : ImenuChange(in.slot, in.value)
    \/ \E text \in EditPrefixInputs : PrefixChange(text)
    \/ \E in \in CustomInputs : CustomSettingChange(in)

SpecEdits == InitEdits /\ [][NextEdits]_vars

\* the score of the window at offset, times 6628, from the bytes
WindowScore(b, offset) ==
    WindowNonZero(b, offset) * 50 + KnownSlots(b, offset) * 5 * 6628

\* the sections reported for mode_id
SectionsOf(mode_id) ==
    {k \in DOMAIN config_sections : config_sections[k].mode_id = mode_id}

\* C14: after the scan, each mode id m in 29..36 has at most one section; it
\* has one iff some position p holds m with p - 1240 >= 0 and a plausible
\* window at p - 1240; and the section kept is such a candidate, of a score
\* not below that of any other candidate for m.
C14_ScanKeepsBestPerMode ==
    (Loaded /\ \A k \in DOMAIN config_sections : config_sections[k].source = "auto")
    => \A m \in 29..36 :
          /\ Cardinality(SectionsOf(m)) <= 1
          /\ SectionsOf(m) # {} <=> ScanCandidates(file_data, m) # {}
          /\ \A k \in SectionsOf(m) :
                /\ config_sections[k].offset \in ScanCandidates(file_data, m)
                /\ \A c \in ScanCandidates(file_data, m) :
                      WindowScore(file_data, c)
                        <= WindowScore(file_data, config_sections[k].offset)

\* Manual has the candidates 0 and 10; the one kept is 10, the second found,
\* of the higher score
C14_Witness ==
    /\ Loaded
    /\ ScanCandidates(file_data, 32) = {0, 10}
    /\ \E k \in SectionsOf(32) : config_sections[k].offset = 10
    /\ WindowScore(file_data, 0) < WindowScore(file_data, 10)

\* C15: no two sections of the scan's result start within 100 bytes of each
\* other.
C15_NoSectionsWithin100Bytes ==
    Loaded =>
        \A j, k \in DOMAIN config_sections :
            (j # k /\ config_sections[j].source = "auto"
                   /\ config_sections[k].source = "auto")
                => \/ config_sections[j].offset - config_sections[k].offset >= 100
                   \/ config_sections[k].offset - config_sections[j].offset >= 100

\* no window the locator looks at is plausible in file_data
NothingPlausible ==
    /\ Hits(standard_sections_mk2) = {}
    /\ Hits(standard_sections_mk1) = {}
    /\ \A m \in 29..36 : ScanCandidates(file_data, m) = {}

\* C17: when no table offset and no candidate of the scan is plausible (a
\* file of zeros, an empty file, a file shorter than 6628 bytes), loading
\* the file reports no section and raises nothing.
C17_NothingPlausibleNothingFound ==
    (Loaded /\ NothingPlausible) =>
        /\ config_sections = <<>>
        /\ selection = NoSel
        /\ last.op = "load" => ~last.fault

\* a file of 6700 bytes that holds a mode id at 1300 and zeros was loaded,
\* and no section is reported
C17_Witness ==
    /\ Loaded
    /\ last.op = "load"
    /\ file_data.len >= 6628
    /\ ByteAt(file_data, 1300) = 32
    /\ NothingPlausible
    /\ config_sections = <<>>

\* the i-menu slot (1..12) the last i-menu change was made in, the position
\* of its 4-byte field, and the id chosen
ChangedSlot == last.source[2]
ChangedSlotPos == config_sections[last.target].offset + 924 + 4 * (ChangedSlot - 1)
ChosenId == imenu_vars[ChangedSlot][2]

\* C18: after a setting id is written into an i-menu slot of a section (and
\* while that section is the one displayed), the slot's 4-byte field holds
\* the id as a little-endian 32-bit number: the id in the low byte, 0 in the
\* three bytes after it.
C18_SlotFieldIsLittleEndianId ==
    (last.op = "imenu" /\ last.target # NoSel /\ selection = last.target
        /\ ChangedSlotPos + 3 < file_data.len) =>
        /\ ByteAt(file_data, ChangedSlotPos) = ChosenId
        /\ ByteAt(file_data, ChangedSlotPos + 1) = 0
        /\ ByteAt(file_data, ChangedSlotPos + 2) = 0
        /\ ByteAt(file_data, ChangedSlotPos + 3) = 0

RECURSIVE DropNonAscii(_)
\* the codes of s below 128, in order
DropNonAscii(s) ==
    IF s = <<>> THEN <<>>
    ELSE IF Head(s) < 128 THEN <<Head(s)>> \o DropNonAscii(Tail(s))
    ELSE DropNonAscii(Tail(s))

\* the first 10 characters of the text typed, without those that are not
\* ASCII
TypedPrefix ==
    DropNonAscii([i \in 1..(IF Len(prefix_var) < 10 THEN Len(prefix_var) ELSE 10)
                     |-> prefix_var[i]])

\* the prefix field of the section the last prefix change was made in
PrefixField == config_sections[last.target].offset + 1540

\* C19: after a prefix change in a section (and while that section is the
\* one displayed, so that prefix_var is the text typed), the 10 bytes at
\* start + 1540 are the first 10 characters typed, less the non-ASCII ones,
\* followed by zeros only; a text of at most 10 ASCII characters without NUL
\* decodes back to itself; nothing is raised and no byte outside the field
\* changes.
C19_PrefixFieldHoldsTypedPrefix ==
    (last.op = "prefix" /\ last.target # NoSel /\ selection = last.target) =>
        /\ ~last.fault
        /\ \A i \in 0..9 :
              ByteAt(file_data, PrefixField + i)
                = IF i < Len(TypedPrefix) THEN TypedPrefix[i + 1] ELSE 0
        /\ (Len(prefix_var) <= 10
               /\ \A i \in 1..Len(prefix_var) : prefix_var[i] \in 1..127)
              => DecodePrefix(file_data, PrefixField) = prefix_var
        /\ file_data.len = last.pre.len
        /\ \A p \in DOMAIN file_data.nz \cup DOMAIN last.pre.nz :
              (p < PrefixField \/ p >= PrefixField + 10)
                  => ByteAt(file_data, p) = ByteAt(last.pre, p)

\* "NZ_" was typed over the 10-byte prefix "ABCDEFGHIJ": the field holds
\* "NZ_" and seven zeros
C19_Witness ==
    /\ last.op = "prefix"
    /\ last.target # NoSel
    /\ selection = last.target
    /\ prefix_var = <<78, 90, 95>>
    /\ \A i \in 0..9 : ByteAt(last.pre, PrefixField + i) = 65 + i
    /\ ByteAt(file_data, PrefixField + 2) = 95
    /\ \A i \in 3..9 : ByteAt(file_data, PrefixField + i) = 0

\* C20: no load and no edit ends in an index-out-of-range fault, whatever
\* the length of the file.
C20_NoIndexFault ==
    last.op \in {"load", "imenu", "prefix", "custom", "copy", "reset"}
        => ~last.fault

\* C27: whenever file_data differs from the bytes last loaded from or saved
\* to a file, modified is true, so that Save does not skip a changed blob.
\* Nothing is saved in this specification, and its one file is never
\* rewritten, so the bytes last loaded are disk[current_file].
C27_ChangedBlobIsMarkedModified ==
    (current_file # NoFile /\ file_data # disk[current_file]) => modified

(***************************************************************************)
(* The editor on files with several user settings: two files to open,      *)
(* copy, reset, export and an i-menu edit, no saves.                       *)
(***************************************************************************)
\* a file with Mark 2 sections: Manual at the first entry and U1 at the U1
\* entry, each with its mode id both at + 316 and at + 1240
Mk2BanksFile ==
    [len |-> 345000,
     nz |-> FilledSection(standard_sections_mk2[1].offset, 32)
            @@ (standard_sections_mk2[1].offset + MK2_MODE_ID_OFFSET :> 32)
            @@ FilledSection(standard_sections_mk2[3].offset, 34)
            @@ (standard_sections_mk2[3].offset + MK2_MODE_ID_OFFSET :> 34)]

\* a file of neither table with U1 at 0 and U2 at 4, whose windows overlap.
\* U1 holds the i-menu ids 21, 200 and 0 and a prefix field C8 41 00, which
\* is not ASCII; the last two bytes are a checksum that was never updated
SmallBanksFile ==
    [len |-> 6640,
     nz |-> Run(3000, 70, 170) @@ (MODE_ID_OFFSET :> 34) @@ (4 + MODE_ID_OFFSET :> 35)
            @@ (IMENU_OFFSET :> 21) @@ (IMENU_OFFSET + IMENU_STRIDE :> 200)
            @@ (PREFIX_OFFSET :> 200) @@ (PREFIX_OFFSET + 1 :> 65)
            @@ (6638 :> 18) @@ (6639 :> 52)]

OtherName == "other.bin"

\* the two files of the directory: the one opened first and another one
BanksDisks ==
    {[f \in {InputName, OtherName} |-> IF f = InputName THEN pair[1] ELSE pair[2]] :
        pair \in {<<Mk2BanksFile, SmallBanksFile>>, <<SmallBanksFile, ShortFile>>}}

InitBanks ==
    /\ InitEditor
    /\ disk \in BanksDisks

NextBanks ==
    \/ \E f \in {InputName, OtherName} : OpenFile(f)
    \/ \E k \in DOMAIN config_sections : SelectMode(k)
    \/ \E k \in DOMAIN config_sections : ChooseCopySource(k)
    \/ \E answer \in BOOLEAN : CopyUserSettings(answer)
    \/ \E answer \in BOOLEAN : ResetUserSettings(answer)
    \/ \E io_ok \in BOOLEAN : ExportSettings(io_ok)
    \/ \E in \in EditImenuInputs : ImenuChange(in.slot, in.value)

SpecBanks == InitBanks /\ [][NextBanks]_vars

\* the prefix field of section holds a byte that is not ASCII before its
\* first NUL, and the field is read (it fits)
NonAsciiPrefix(section) ==
    /\ section.offset + PREFIX_OFFSET + PREFIX_LEN < file_data.len
    /\ \E i \in 1..Len(PrefixBytes(file_data, section.offset + PREFIX_OFFSET)) :
          PrefixBytes(file_data, section.offset + PREFIX_OFFSET)[i] > 127

\* bytes.hex(): two lower-case hexadecimal digits for each byte
HexDigit(n) == IF n < 10 THEN 48 + n ELSE 87 + n
Hex(bytes) ==
    [i \in 1..(2 * Len(bytes)) |->
        IF i % 2 = 1 THEN HexDigit(bytes[(i + 1) \div 2] \div 16)
        ELSE HexDigit(bytes[i \div 2] % 16)]

\* the i-menu ids of section as the blob holds them
SlotByte(section, i) ==
    ByteAt(file_data, section.offset + IMENU_OFFSET + (i - 1) * IMENU_STRIDE)

\* C21: when the prefix field of a section holds, before its first NUL, bytes
\* that are not ASCII, the decode of the section does not fail and gives
\* the prefix as the hexadecimal digits of those bytes, next to the other
\* fields: in the editor display of the selected section (the prefix entry
\* is not edited in this specification, and an i-menu edit writes what the
\* comboboxes show, so they show the decode of file_data) and in the
\* settings just exported.
C21_NonAsciiPrefixIsShownAsHex ==
    /\ \A k \in DOMAIN config_sections :
          (selection = k /\ NonAsciiPrefix(config_sections[k]))
          => /\ prefix_var = Hex(PrefixBytes(file_data,
                                    config_sections[k].offset + PREFIX_OFFSET))
             /\ \A i \in 1..IMENU_SLOTS :
                   imenu_vars[i][2] = SlotByte(config_sections[k], i)
    /\ \A k \in DOMAIN config_sections :
          (last.op = "export" /\ ~last.fault /\ NonAsciiPrefix(config_sections[k]))
          => /\ exported[k].file_prefix
                  = Hex(PrefixBytes(file_data,
                                    config_sections[k].offset + PREFIX_OFFSET))
             /\ \A i \in 1..IMENU_SLOTS :
                   exported[k].imenu[i].id = SlotByte(config_sections[k], i)

\* the kind of text expected for an i-menu id: empty, a name, or unknown
ExpectedKind(item_id) ==
    IF item_id = 0 THEN "(Empty)"
    ELSE IF item_id \in 0..MAX_IMENU_ID THEN "Name"
    ELSE "Unknown/Invalid"

\* the kind of a decoded text; "Unknown (n)" of the export counts as
\* "Unknown/Invalid (n)"
KindOf(text) == IF text[1] = "Unknown" THEN "Unknown/Invalid" ELSE text[1]

\* the decoded text shows item_id in the expected kind
DecodedAs(text, item_id) ==
    /\ KindOf(text) = ExpectedKind(item_id)
    /\ text[2] = item_id

\* C22: every decode of an i-menu slot reads the byte at start + 924 + 4i
\* alone and shows 0 as empty, an id of the name table as its name and any
\* other id as unknown: in the comboboxes of the selected section, in the
\* details of a selected user setting (which an i-menu edit does not
\* refresh), and in the settings just exported.
C22_EveryDecodeMapsEmptyNameUnknown ==
    /\ selection # NoSel
          => \A i \in 1..IMENU_SLOTS :
                DecodedAs(imenu_vars[i], SlotByte(config_sections[selection], i))
    /\ (selection # NoSel /\ user_details.shown /\ last.op # "imenu")
          => \A i \in 1..IMENU_SLOTS :
                DecodedAs(user_details.imenu[i],
                          SlotByte(config_sections[selection], i))
    /\ (last.op = "export" /\ ~last.fault)
          => \A k \in DOMAIN config_sections : \A i \in 1..IMENU_SLOTS :
                /\ exported[k].imenu[i].id = SlotByte(config_sections[k], i)
                /\ DecodedAs(exported[k].imenu[i].name,
                             SlotByte(config_sections[k], i))

\* C23: in every state of the editor each located section lies inside the
\* blob: its start is at least 0 and start + 6628 is at most the length of
\* file_data, whatever files were loaded before and whatever was copied or
\* reset since.
C23_LocatedSectionsFit ==
    \A k \in DOMAIN config_sections :
        /\ config_sections[k].offset >= 0
        /\ config_sections[k].offset + SECTION_SIZE <= file_data.len

\* a second, shorter file was loaded after a file whose sections would not
\* fit in it, sections were located in it, and one of them was copied over
C23_Witness ==
    /\ used.loads = 2
    /\ last.op = "copy" /\ ~last.fault
    /\ current_file = OtherName
    /\ \E k \in DOMAIN find_config_sections(disk[InputName]) :
          find_config_sections(disk[InputName])[k].offset + SECTION_SIZE > file_data.len
    /\ DOMAIN config_sections # {}
    /\ file_data # disk[current_file]

\* the section a copy wrote and the section it read
CopyTarget == config_sections[last.target].offset
CopySource == config_sections[last.source].offset

\* every position where file_data, the buffer before the copy, or that
\* buffer moved from the source window onto the target window holds a
\* non-zero byte; at any other position all three hold 0
CopyPositions ==
    (DOMAIN file_data.nz) \cup (DOMAIN last.pre.nz)
      \cup {p - CopySource + CopyTarget : p \in DOMAIN last.pre.nz}

\* C24: after a copy from section S to section T, each byte of the window
\* of T other than the one at + 1240 is the byte the window of S held at the
\* same relative offset before the copy, also when the windows overlap or
\* are the same; no byte outside the window of T has changed, the last two
\* (checksum) bytes included, and the length is the same.
C24_CopyWritesTheTargetWindowOnly ==
    (last.op = "copy" /\ ~last.fault)
    => /\ file_data.len = last.pre.len
       /\ \A q \in CopyPositions :
             (q >= 0 /\ q < file_data.len)
             => IF q >= CopyTarget /\ q < CopyTarget + SECTION_SIZE
                THEN q # CopyTarget + MODE_ID_OFFSET
                     => ByteAt(file_data, q) = ByteAt(last.pre, q - CopyTarget + CopySource)
                ELSE ByteAt(file_data, q) = ByteAt(last.pre, q)
       /\ \A q \in {file_data.len - 2, file_data.len - 1} :
             ~(q >= CopyTarget /\ q < CopyTarget + SECTION_SIZE)
             => ByteAt(file_data, q) = ByteAt(last.pre, q)

\* U1 at 0 was copied onto U2 at 4: the windows overlap, the target starts
\* inside the source, the copy changed the blob, and the stale checksum at
\* the end is still there
C24_Witness ==
    /\ last.op = "copy" /\ ~last.fault
    /\ CopyTarget > CopySource
    /\ CopyTarget < CopySource + SECTION_SIZE
    /\ file_data # last.pre
    /\ ByteAt(file_data, CopyTarget + IMENU_OFFSET) = 21
    /\ ByteAt(file_data, file_data.len - 1) = 52

\* the positions of the low bytes of the 12 i-menu slots of section
SlotPositions(section) ==
    {section.offset + IMENU_OFFSET + i * IMENU_STRIDE : i \in 0..(IMENU_SLOTS - 1)}

\* C25: writing back the i-menu table just decoded from the selected
\* section (load_section_settings, then apply_imenu_changes with no choice
\* made) leaves file_data as it is, unknown ids included; and an i-menu edit
\* changes no byte other than low bytes of the 12 slot fields of the
\* selected section, and not the length.
C25_ImenuRoundTripAndFrame ==
    /\ selection # NoSel
          => apply_imenu_changes(file_data, config_sections[selection].offset,
                 load_section_settings(file_data, config_sections[selection],
                                       imenu_vars, prefix_var).imenu) = file_data
    /\ (last.op = "imenu" /\ last.target # NoSel)
          => /\ file_data.len = last.pre.len
             /\ \A q \in (DOMAIN file_data.nz) \cup (DOMAIN last.pre.nz) :
                   ByteAt(file_data, q) # ByteAt(last.pre, q)
                   => q \in SlotPositions(config_sections[last.target])

\* slot 1 of a section whose slot 2 holds the unknown id 200 was set to 36:
\* the blob changed, slot 2 still holds 200, and the comboboxes show both
C25_Witness ==
    /\ last.op = "imenu" /\ last.target # NoSel /\ selection = last.target
    /\ file_data # last.pre
    /\ SlotByte(config_sections[selection], 1) = 36
    /\ SlotByte(config_sections[selection], 2) = 200
    /\ imenu_vars[2] = <<"Unknown/Invalid", 200>>

\* the sections find_config_sections reports for file_data as it is now
LocatedNow == find_config_sections(file_data)

\* C26: a copy does not change what the locator says of its target: when
\* the sections come from a known-offset table, locating again after the
\* copy reports the target at the same offset with the same mode id and the
\* same mode name as before, whatever the source was.
C26_CopyKeepsLocatedIdentity ==
    (/\ last.op = "copy" /\ ~last.fault
     /\ config_sections[last.target].source \in {"standard_mk1", "standard_mk2"})
    => \E k \in DOMAIN LocatedNow :
          /\ LocatedNow[k].offset = config_sections[last.target].offset
          /\ LocatedNow[k].mode_id = config_sections[last.target].mode_id
          /\ LocatedNow[k].mode_name = config_sections[last.target].mode_name

\* C28: a located section that was reset is still a located section, at the
\* same offset and with the same mode id, when the sections of the
\* resulting blob are located again.
C28_ResetSectionStaysLocated ==
    (last.op = "reset" /\ ~last.fault)
    => \E k \in DOMAIN LocatedNow :
          /\ LocatedNow[k].offset = config_sections[last.target].offset
          /\ LocatedNow[k].mode_id = config_sections[last.target].mode_id

(***************************************************************************)
(* The upload command: a file of the computer is uploaded to a camera      *)
(* drive that holds no menu file, one of the two named menu files, both,   *)
(* or a menu file of another name.                                         *)
(***************************************************************************)
UploadName == "edited.bin"
MissingName == "missing.bin"

\* the bytes N I K O N at the start of a file
NikonHead == (0 :> 78) @@ (1 :> 73) @@ (2 :> 75) @@ (3 :> 79) @@ (4 :> 78)

\* a menu file of n bytes
MenuOfSize(n) == [len |-> n, nz |-> NikonHead @@ (20 :> 9)]

\* a file of n bytes that starts with N I K O M
ForeignOfSize(n) == [len |-> n, nz |-> (4 :> 77) @@ NikonHead]

\* a file of the four bytes N I K O
ShortForeign == [len |-> 4, nz |-> (0 :> 78) @@ (1 :> 73) @@ (2 :> 75) @@ (3 :> 79)]

\* the sources of an upload: sizes at and next to both ends of the range that
\* raises no warning, with and without the header
UploadSources ==
    {MenuOfSize(MIN_MENU_SIZE), MenuOfSize(MIN_MENU_SIZE - 1),
     MenuOfSize(MAX_MENU_SIZE), MenuOfSize(MAX_MENU_SIZE + 1),
     ForeignOfSize(2000), ShortForeign}

\* the menu files a camera has written
OldMenu == [len |-> 1500, nz |-> NikonHead @@ (100 :> 7)]
OlderMenu == [len |-> 1500, nz |-> NikonHead @@ (100 :> 8)]

\* the menu files of the camera drive
DriveFiles ==
    {<<>>, (MENU_Z5_MK1 :> OldMenu), (MENU_Z5_MK2 :> OldMenu),
     ("NCSET001.BIN" :> OldMenu),
     (MENU_Z5_MK2 :> OldMenu) @@ (MENU_Z5_MK1 :> OlderMenu),
     (MENU_Z5_MK1 :> OldMenu) @@ ("NCSET001.BIN" :> OlderMenu)}

UploadDisks ==
    {(UploadName :> source) @@ drive : source \in UploadSources, drive \in DriveFiles}

\* what the user may type at a warning
Responses == {"y", "Y", "n", ""}

InitUpload ==
    /\ InitEditor
    /\ disk \in UploadDisks

NextUpload ==
    \/ \E source_file \in {UploadName, MissingName} :
         \E cameras \in BOOLEAN, backup_existing \in BOOLEAN, safety_checks \in BOOLEAN :
            UploadMenuFile(source_file, cameras, backup_existing, safety_checks)
    \/ \E writable \in BOOLEAN, readable \in BOOLEAN :
         \E size_response \in Responses, format_response \in Responses :
            PerformSafetyChecks(writable, size_response, readable, format_response)
    \/ \E outcome \in CopyOutcomes : BackupExisting(outcome)
    \/ \E outcome \in CopyOutcomes : UploadFile(outcome)

SpecUpload == InitUpload /\ [][NextUpload]_vars

\* C29: once a safety warning of an upload has been answered with something
\* other than y, the files are as they were when the upload began: no backup
\* is created and the target menu file is not overwritten
C29_RefusedWarningLeavesTheDrive ==
    uploader.refused => disk = uploader.before

\* the backup of an upload was wanted and the target menu file existed
BackupWanted ==
    /\ uploader.target_file # ""
    /\ uploader.backup_existing
    /\ uploader.target_file \in DOMAIN uploader.before

\* the backup file holds what the target held when the upload began
BackupHoldsPrevious ==
    /\ BackupName(uploader.target_file) \in DOMAIN disk
    /\ disk[BackupName(uploader.target_file)] = uploader.before[uploader.target_file]

\* the target menu file is as it was when the upload began
TargetUntouched ==
    disk[uploader.target_file] = uploader.before[uploader.target_file]

\* C30: with a backup wanted and a target menu file on the drive, the upload
\* step is reached only with the backup holding the target's previous contents
\* and the target not yet written; whenever the target differs from what it
\* was, the backup holds what it was; and after a failed backup the upload has
\* stopped with the target as it was
C30_BackupBeforeOverwrite ==
    BackupWanted =>
        /\ uploader.pc = "upload" => (BackupHoldsPrevious /\ TargetUntouched)
        /\ ~TargetUntouched => BackupHoldsPrevious
        /\ uploader.error = "backup_failed" =>
              (uploader.pc = "failed" /\ TargetUntouched)

\* an upload has ended with the source in the target and the target's
\* previous, different contents in the backup
C30_Witness ==
    /\ BackupWanted
    /\ uploader.pc = "done"
    /\ BackupHoldsPrevious
    /\ ~TargetUntouched
    /\ disk[uploader.target_file] = disk[uploader.source_file]

====
